---- MODULE Spec2Model ----
(***************************************************************************)
(* ghp: terminal client for GitHub Projects v2.                           *)
(*                                                                         *)
(* The module models the board state engine: the in-memory Store          *)
(* (internal/store), the optimistic move / rollback protocol and the      *)
(* background pagination driven by the Bubble Tea models (internal/tui).  *)
(*                                                                         *)
(* Spec     : the Store driven through its public methods, as the store   *)
(*            tests drive it.                                              *)
(* SpecApp  : the Board screen of the application: events processed one   *)
(*            at a time by AppModel.Update, commands running out of line. *)
(* SpecLoad : SpecApp with the board as the active screen throughout and  *)
(*            no reload-all: the background load of the pages.            *)
(* SpecPages: the board with the reload key only, on a remote holding any *)
(*            prefix of the items, with the runtime's fairness: the two   *)
(*            page loops.                                                  *)
(* SpecCaller: a caller of the Store that keeps the answer to its latest  *)
(*            call and may write into it.                                  *)
(* SpecFrame: one call of one Store method on a store prepared by earlier *)
(*            calls: what each method changes and what it leaves alone.   *)
(* SpecUpserts: sequences of UpsertCards calls between Clear / Reset.     *)
(* SpecSelect: SelectGroupField on lists of fields.                       *)
(* SpecBoot : the start-up sequence of AppModel: owner, project and field *)
(*            resolution with the three flags, pickers and failures.      *)
(* SpecMove : the board right after an optimistic move, with further      *)
(*            moves and a change of the grouping field.                    *)
(* SpecReload: reload-all on a board at rest whose project may have lost  *)
(*            items on the remote.                                         *)
(* SpecNav  : the board with the keys that move the selection and the    *)
(*            filter on the viewer's cards, the load running.             *)
(* SpecDetour: the load with detours through the detail view and the      *)
(*            field picker, every request succeeding, under the runtime's *)
(*            fairness.                                                    *)
(* SpecStale: UpsertCards calls around a MoveCard and its RollbackMove.   *)
(***************************************************************************)
EXTENDS Integers, Sequences, FiniteSets, Bags, TLC

(***************************************************************************)
(* Bounds                                                                  *)
(***************************************************************************)
NumItems == 2

\* Items on a page (the program asks for 100).
PageSize == 1

\* Key presses in a run.
MaxKeys == 3

\* UpsertCards calls between two Clear / Reset calls.
MaxUpserts == 2

\* Fields in a list handed to SelectGroupField.
MaxFields == 3

ItemIDs == 1..NumItems

(***************************************************************************)
(* Domain values                                                           *)
(***************************************************************************)
\* The nil pointer.
Nil == [nil |-> TRUE]

\* An empty Go map.
EmptyMap == [k \in {} |-> <<>>]

NoStatusKey == "_no_status_"

ErrNone == "ok"
ErrNoGroupField == "no grouping field set"
ErrCardNotFound == "card not found"
ErrNoRollback == "no rollback state available"

FieldTypeSingleSelect == "SINGLE_SELECT"

StatusField ==
    [ID |-> "field_status", Name |-> "Status", Type |-> FieldTypeSingleSelect,
     Options |-> <<"opt_todo">>]

PriorityField ==
    [ID |-> "field_priority", Name |-> "Priority", Type |-> FieldTypeSingleSelect,
     Options |-> <<"opt_high">>]

FieldDefs == {StatusField, PriorityField}

TestProject == [ID |-> "proj_123", Number |-> 1, Title |-> "Test Project", Owner |-> "testorg"]

\* The grouping values a card can carry: unset, or an option identity of some field.
OptionIDs == {"", "opt_todo", "opt_high"}

\* The keys a column can have: the sentinel and every option identity.
ColumnKeys == {NoStatusKey} \cup (OptionIDs \ {""})

\* A card as Client.GetItems builds it for an Issue: every field of domain.Card is set.
Card(id, opt) ==
    [ItemID |-> id, ContentType |-> "Issue", Title |-> "Task",
     URL |-> "https://github.com/test/repo/issues", Repo |-> "test/repo", Number |-> id,
     GroupOptionID |-> opt, Assignees |-> <<"alice">>, Body |-> "body", State |-> "OPEN",
     Labels |-> <<"bug">>, Author |-> "bob", CreatedAt |-> "2024-01-01T00:00:00Z"]

\* The orders in which a list can hold the members of S.
Orders(S) == {o \in [1..Cardinality(S) -> S] : \A i, j \in 1..Cardinality(S) : o[i] = o[j] => i = j}

\* Batches handed to UpsertCards: one card, or two cards of different identities.
Batches ==
    {<<Card(i, v)>> : i \in ItemIDs, v \in OptionIDs}
    \cup {<<Card(ij[1], vw[1]), Card(ij[2], vw[2])>> :
            ij \in {x \in ItemIDs \X ItemIDs : x[1] < x[2]}, vw \in OptionIDs \X OptionIDs}

Range(f) == {f[x] : x \in DOMAIN f}

(***************************************************************************)
(* Store: a record; a method is an operator giving the stores it can      *)
(* leave (the column lists follow Go's map iteration order, which is any) *)
(***************************************************************************)
New ==
    [project |-> Nil, groupField |-> Nil, viewerLogin |-> "",
     cards |-> EmptyMap, columns |-> EmptyMap,
     cursor |-> "", hasNextPage |-> FALSE, rollbackCard |-> Nil]

\* A key that forgets the sentinel for the empty value.
RawKey(card) == card.GroupOptionID

ColumnKey(card) == IF card.GroupOptionID = "" THEN NoStatusKey ELSE card.GroupOptionID

\* The orders in which Go iterates over the cards map: the order is unspecified and
\* changes from one iteration to the next; the model takes the identities forwards or
\* backwards.
IterationOrders == {[i \in ItemIDs |-> i], [i \in ItemIDs |-> NumItems + 1 - i]}

\* The column maps rebuildColumns can produce from the cards, one for each iteration order.
ColumnMaps(cards) ==
    LET keys == {ColumnKey(cards[id]) : id \in DOMAIN cards}
    IN {[k \in keys |->
            SelectSeq(o, LAMBDA id : id \in DOMAIN cards /\ ColumnKey(cards[id]) = k)]
        : o \in IterationOrders}

\* A rebuild that checks the values against the grouping field: a value that is not one
\* of its options goes to the sentinel key.
rebuildColumnsChecked(s) ==
    LET known(v) == s.groupField = Nil
                    \/ \E i \in 1..Len(s.groupField.Options) : s.groupField.Options[i] = v
        key(id) == IF known(s.cards[id].GroupOptionID) THEN s.cards[id].GroupOptionID
                   ELSE NoStatusKey
    IN {[s EXCEPT !.columns =
            [k \in {key(id) : id \in DOMAIN s.cards} |->
                SelectSeq(o, LAMBDA id : id \in DOMAIN s.cards /\ key(id) = k)]]
        : o \in IterationOrders}

rebuildColumns(s) == {[s EXCEPT !.columns = c] : c \in ColumnMaps(s.cards)}

SetProject(s, project) == [s EXCEPT !.project = project]

SetViewerLogin(s, login) == [s EXCEPT !.viewerLogin = login]

\* A SetGroupField that re-maps: a value the new field does not know is reset to empty.
SetGroupFieldRemap(s, field) ==
    rebuildColumns(
        [s EXCEPT !.groupField = field,
                  !.cards = [id \in DOMAIN s.cards |->
                                IF \E i \in 1..Len(field.Options) :
                                        field.Options[i] = s.cards[id].GroupOptionID
                                THEN s.cards[id]
                                ELSE [s.cards[id] EXCEPT !.GroupOptionID = ""]]])

SetGroupField(s, field) == rebuildColumns([s EXCEPT !.groupField = field])

RECURSIVE putCards(_, _)
putCards(cs, batch) ==
    IF batch = <<>> THEN cs
    ELSE LET c == Head(batch)
         IN putCards([id \in (DOMAIN cs) \cup {c.ItemID} |-> IF id = c.ItemID THEN c ELSE cs[id]],
                     Tail(batch))

\* An upsert that merges: a card already stored keeps its title.
UpsertCardsMerge(s, batch) ==
    LET put == putCards(s.cards, batch)
    IN rebuildColumns([s EXCEPT !.cards =
            [id \in DOMAIN put |->
                IF id \in DOMAIN s.cards THEN [put[id] EXCEPT !.Title = s.cards[id].Title]
                ELSE put[id]]])

\* An upsert that forgets the cards it is not given.
UpsertCardsOnly(s, batch) == rebuildColumns([s EXCEPT !.cards = putCards(EmptyMap, batch)])

UpsertCards(s, batch) == rebuildColumns([s EXCEPT !.cards = putCards(s.cards, batch)])

GetCard(s, itemID) ==
    IF itemID \in DOMAIN s.cards
    THEN [card |-> s.cards[itemID], err |-> ErrNone]
    ELSE [card |-> Nil, err |-> ErrCardNotFound]

GetAllCards(s) == Range(s.cards)

\* A GetColumns that answers without a grouping field as it does with one.
GetColumnsAnyway(s) == [columns |-> s.columns, err |-> ErrNone]

GetColumns(s) ==
    IF s.groupField = Nil
    THEN [columns |-> Nil, err |-> ErrNoGroupField]
    ELSE [columns |-> s.columns, err |-> ErrNone]

GetColumnCardIDs(s, optionID) ==
    IF optionID \in DOMAIN s.columns THEN s.columns[optionID] ELSE <<>>

ErrNoSelectableFields == "no SINGLE_SELECT fields found in project"

\* strings.EqualFold over the field names of the model: equal once both are in lower case.
EqualFold(a, b) ==
    LET lower(x) == IF x \in {"Status", "STATUS", "status"} THEN "status" ELSE x
    IN lower(a) = lower(b)

\* A heuristic that compares the name as written.
SelectGroupFieldExact(fields) ==
    LET singleSelectFields == SelectSeq(fields, LAMBDA f : f.Type = FieldTypeSingleSelect)
        named == SelectSeq(singleSelectFields, LAMBDA f : f.Name = "Status")
    IN IF Len(singleSelectFields) = 0
       THEN [selected |-> Nil, candidates |-> Nil, err |-> ErrNoSelectableFields]
       ELSE IF named # <<>> THEN [selected |-> named[1], candidates |-> Nil, err |-> ErrNone]
       ELSE IF Len(singleSelectFields) = 1
       THEN [selected |-> singleSelectFields[1], candidates |-> Nil, err |-> ErrNone]
       ELSE [selected |-> Nil, candidates |-> singleSelectFields, err |-> ErrNone]

\* A heuristic that, left with several candidates, picks the first.
SelectGroupFieldFirst(fields) ==
    LET singleSelectFields == SelectSeq(fields, LAMBDA f : f.Type = FieldTypeSingleSelect)
        named == SelectSeq(singleSelectFields, LAMBDA f : EqualFold(f.Name, "Status"))
    IN IF Len(singleSelectFields) = 0
       THEN [selected |-> Nil, candidates |-> Nil, err |-> ErrNoSelectableFields]
       ELSE IF named # <<>> THEN [selected |-> named[1], candidates |-> Nil, err |-> ErrNone]
       ELSE [selected |-> singleSelectFields[1], candidates |-> Nil, err |-> ErrNone]

\* The three results: the field picked, the candidates to choose from, the error; a nil
\* pointer and a nil slice are Nil.
SelectGroupField(fields) ==
    LET singleSelectFields == SelectSeq(fields, LAMBDA f : f.Type = FieldTypeSingleSelect)
        named == SelectSeq(singleSelectFields, LAMBDA f : EqualFold(f.Name, "Status"))
    IN IF Len(singleSelectFields) = 0
       THEN [selected |-> Nil, candidates |-> Nil, err |-> ErrNoSelectableFields]
       ELSE IF named # <<>> THEN [selected |-> named[1], candidates |-> Nil, err |-> ErrNone]
       ELSE IF Len(singleSelectFields) = 1
       THEN [selected |-> singleSelectFields[1], candidates |-> Nil, err |-> ErrNone]
       ELSE [selected |-> Nil, candidates |-> singleSelectFields, err |-> ErrNone]

ErrInvalidOption(optionID) == "invalid option ID: " \o optionID

\* A ValidateOption that holds the empty string against the options like any other value.
ValidateOptionStrict(s, optionID) ==
    IF s.groupField = Nil THEN ErrNoGroupField
    ELSE IF \E i \in 1..Len(s.groupField.Options) : s.groupField.Options[i] = optionID THEN ErrNone
    ELSE ErrInvalidOption(optionID)

ValidateOption(s, optionID) ==
    IF s.groupField = Nil THEN ErrNoGroupField
    ELSE IF optionID = "" THEN ErrNone
    ELSE IF \E i \in 1..Len(s.groupField.Options) : s.groupField.Options[i] = optionID THEN ErrNone
    ELSE ErrInvalidOption(optionID)

\* The copy MoveCard keeps for rollback: seven fields, the others left at their zero value.
Snapshot(card) ==
    [ItemID |-> card.ItemID, ContentType |-> card.ContentType, Title |-> card.Title,
     URL |-> card.URL, Repo |-> card.Repo, Number |-> card.Number,
     GroupOptionID |-> card.GroupOptionID,
     Assignees |-> <<>>, Body |-> "", State |-> "", Labels |-> <<>>, Author |-> "",
     CreatedAt |-> ""]

\* A MoveCard that forgets to rebuild the column index.
MoveCardNoRebuild(s, itemID, newOptionID) ==
    IF itemID \notin DOMAIN s.cards
    THEN {[store |-> s, err |-> ErrCardNotFound]}
    ELSE {[store |-> [s EXCEPT !.rollbackCard = Snapshot(s.cards[itemID]),
                               !.cards[itemID].GroupOptionID = newOptionID],
           err |-> ErrNone]}

\* A MoveCard that keeps an older snapshot instead of overwriting it.
MoveCardKeepSnapshot(s, itemID, newOptionID) ==
    IF itemID \notin DOMAIN s.cards
    THEN {[store |-> s, err |-> ErrCardNotFound]}
    ELSE {[store |-> t, err |-> ErrNone] :
            t \in rebuildColumns([s EXCEPT !.rollbackCard = IF s.rollbackCard = Nil
                                                            THEN Snapshot(s.cards[itemID])
                                                            ELSE s.rollbackCard,
                                           !.cards[itemID].GroupOptionID = newOptionID])}

\* A MoveCard that drops the snapshot it holds before it looks for the card.
MoveCardDropsSnapshot(s, itemID, newOptionID) ==
    IF itemID \notin DOMAIN s.cards
    THEN {[store |-> [s EXCEPT !.rollbackCard = Nil], err |-> ErrCardNotFound]}
    ELSE {[store |-> t, err |-> ErrNone] :
            t \in rebuildColumns([s EXCEPT !.rollbackCard = Snapshot(s.cards[itemID]),
                                           !.cards[itemID].GroupOptionID = newOptionID])}

\* A MoveCard that validates its target first.
MoveCardValidated(s, itemID, newOptionID) ==
    IF itemID \notin DOMAIN s.cards
    THEN {[store |-> s, err |-> ErrCardNotFound]}
    ELSE IF ValidateOption(s, newOptionID) # ErrNone
    THEN {[store |-> s, err |-> ValidateOption(s, newOptionID)]}
    ELSE {[store |-> t, err |-> ErrNone] :
            t \in rebuildColumns([s EXCEPT !.rollbackCard = Snapshot(s.cards[itemID]),
                                           !.cards[itemID].GroupOptionID = newOptionID])}

MoveCard(s, itemID, newOptionID) ==
    IF itemID \notin DOMAIN s.cards
    THEN {[store |-> s, err |-> ErrCardNotFound]}
    ELSE {[store |-> t, err |-> ErrNone] :
            t \in rebuildColumns([s EXCEPT !.rollbackCard = Snapshot(s.cards[itemID]),
                                           !.cards[itemID].GroupOptionID = newOptionID])}

\* A RollbackMove that forgets to empty the slot.
RollbackKeepSlot(s) ==
    IF s.rollbackCard = Nil
    THEN {[store |-> s, err |-> ErrNoRollback]}
    ELSE {[store |-> t, err |-> ErrNone] :
            t \in rebuildColumns([s EXCEPT !.cards = putCards(s.cards, <<s.rollbackCard>>)])}

RollbackMove(s) ==
    IF s.rollbackCard = Nil
    THEN {[store |-> s, err |-> ErrNoRollback]}
    ELSE {[store |-> [t EXCEPT !.rollbackCard = Nil], err |-> ErrNone] :
            t \in rebuildColumns([s EXCEPT !.cards = putCards(s.cards, <<s.rollbackCard>>)])}

SetPagination(s, cursor, hasNextPage) == [s EXCEPT !.cursor = cursor, !.hasNextPage = hasNextPage]

GetPagination(s) == <<s.cursor, s.hasNextPage>>

\* A Clear that forgets the cards.
ClearKeepsCards(s) == [s EXCEPT !.cursor = "", !.hasNextPage = FALSE, !.rollbackCard = Nil]

\* A Clear that forgets the rollback slot.
ClearKeepsSnapshot(s) ==
    [s EXCEPT !.cards = EmptyMap, !.columns = EmptyMap, !.cursor = "", !.hasNextPage = FALSE]

Clear(s) ==
    [s EXCEPT !.cards = EmptyMap, !.columns = EmptyMap, !.cursor = "", !.hasNextPage = FALSE,
              !.rollbackCard = Nil]

Reset(s) == Clear([s EXCEPT !.project = Nil, !.groupField = Nil])

(***************************************************************************)
(* The remote service, as the client (internal/gh) sees it                 *)
(***************************************************************************)
\* The cause a failed request reports, and the errors the client and the commands make of it.
ErrRequest == "request failed"
ErrGetItems == "failed to get items: " \o ErrRequest
ErrUpdateItemField == "failed to update item field: " \o ErrRequest
ErrMissing == "missing project or field"

\* AppModel.fields, as loaded at start-up.
Fields == <<StatusField, PriorityField>>

FieldNamed(name) == CHOOSE f \in FieldDefs : f.Name = name

\* The items of the project with their value under each field.
RemoteItems ==
    [f \in {StatusField.ID, PriorityField.ID} |->
        [i \in ItemIDs |-> IF f = StatusField.ID
                           THEN (IF i % 2 = 1 THEN "opt_todo" ELSE "")
                           ELSE (IF i % 2 = 1 THEN "" ELSE "opt_high")]]

\* The end cursor of a page is an opaque string naming its last item.
EndCursor(id) == ToString(id)

Ascending(S) ==
    CHOOSE o \in [1..Cardinality(S) -> S] : \A i, j \in 1..Cardinality(S) : i < j => o[i] < o[j]

\* items(first: $first, after: $after) with pageInfo, or a failed request.
GetItems(rem, groupFieldName, cursor, limit) ==
    LET fid  == FieldNamed(groupFieldName).ID
        held == DOMAIN rem[fid]
        rest == IF cursor = "" THEN held
                ELSE {i \in held : \E j \in ItemIDs : EndCursor(j) = cursor /\ i > j}
        page == {i \in rest : Cardinality({j \in rest : j < i}) < limit}
        ids  == Ascending(page)
    IN {[cards |-> [k \in 1..Len(ids) |-> Card(ids[k], rem[fid][ids[k]])],
         nextCursor |-> IF page = {} THEN "" ELSE EndCursor(ids[Len(ids)]),
         hasMore |-> page # rest,
         err |-> ErrNone],
        [cards |-> <<>>, nextCursor |-> "", hasMore |-> FALSE, err |-> ErrGetItems]}

\* updateProjectV2ItemFieldValue, or a failed request.
UpdateItemField(rem, itemID, fieldID, optionID) ==
    {[remote |-> [rem EXCEPT ![fieldID][itemID] = optionID], err |-> ErrNone],
     [remote |-> rem, err |-> ErrUpdateItemField]}

(***************************************************************************)
(* Messages and commands of the Bubble Tea program                         *)
(***************************************************************************)
Bag1(e) == SetToBag({e})

KeyMsg(key) == [type |-> "KeyMsg", key |-> key]
boardReadyMsg == [type |-> "boardReadyMsg"]
boardInitMsg == [type |-> "boardInitMsg"]
changeGroupFieldMsg == [type |-> "changeGroupFieldMsg"]
openDetailMsg(card) == [type |-> "openDetailMsg", card |-> card.ItemID]
closeDetailMsg == [type |-> "closeDetailMsg"]
FieldSelectedMsg(field) == [type |-> "FieldSelectedMsg", Field |-> field]
itemsLoadedMsg == [type |-> "itemsLoadedMsg"]
itemsErrorMsg(err) == [type |-> "itemsErrorMsg", err |-> err]
\* A success event that is handled like a failure.
moveSuccessAsError == [type |-> "moveErrorMsg", err |-> "", itemID |-> 0, preMove |-> ""]

moveSuccessMsg == [type |-> "moveSuccessMsg"]

\* itemID and preMove are history: the card the failed move was about and the grouping
\* value it had when the move was issued.
moveErrorMsg(err, itemID, preMove) ==
    [type |-> "moveErrorMsg", err |-> err, itemID |-> itemID, preMove |-> preMove]

\* fetchedFor is history: the field the page was fetched under.
pageLoadedMsg(cards, nextCursor, hasMore, err, fetchedFor) ==
    [type |-> "pageLoadedMsg", cards |-> cards, nextCursor |-> nextCursor, hasMore |-> hasMore,
     err |-> err, fetchedFor |-> fetchedFor]

\* The closures returned by loadNextPage, moveCardToColumn and loadAllItems, not yet run.
loadNextPage(cursor) == [type |-> "loadNextPage", cursor |-> cursor]

\* preMove and field are history: the card's grouping value before the move and the
\* grouping field the store had when the move was made. The closure holds neither.
moveCommand(itemID, newOptionID, preMove, field) ==
    [type |-> "moveCardToColumn", itemID |-> itemID, newOptionID |-> newOptionID,
     preMove |-> preMove, field |-> field]

\* pc is the closure's position: before its Clear(), or in its page loop; groupField,
\* cursor and allCards are its local variables.
loadAllItems ==
    [type |-> "loadAllItems", pc |-> "start", groupField |-> "", cursor |-> "", allCards |-> <<>>]

(***************************************************************************)
(* BoardModel                                                              *)
(***************************************************************************)
ScreenLoading == "ScreenLoading"
ScreenOwner == "ScreenOwner"
ScreenProjectPicker == "ScreenProjectPicker"
ScreenFieldPicker == "ScreenFieldPicker"
ScreenBoard == "ScreenBoard"
ScreenDetail == "ScreenDetail"

NoModel == "nil"
TheBoard == "BoardModel"
ThePicker == "GroupFieldPickerModel"
TheOwnerPicker == "OwnerPickerModel"
TheProjectPicker == "ProjectPickerModel"
TheDetail == "DetailModel"

\* selectedCard is a Go map read with its zero default: every key has an index, 0 at first.
NewBoardModel ==
    [columns |-> <<>>, filteredCards |-> EmptyMap, selectedColumn |-> 0, moveMode |-> FALSE,
     loading |-> FALSE, loadingMore |-> FALSE, nextCursor |-> "", errorToast |-> "",
     selectedCard |-> [k \in ColumnKeys |-> 0], filterMyOnly |-> FALSE]

\* What an Update returns: the model, the store it worked on, the commands and the
\* messages of immediate commands it hands to the runtime.
Out(b, s, c, m) == [board |-> b, store |-> s, cmds |-> c, msgs |-> m]

BoardRebuildColumns(b, s) ==
    IF s.groupField = Nil THEN b
    ELSE LET cols == s.groupField.Options \o <<NoStatusKey>>
         IN [b EXCEPT !.columns = cols,
                      !.selectedColumn = IF @ >= Len(cols) THEN 0 ELSE @]

\* No filter text among the inputs: a card passes unless the "assigned to me" filter is on,
\* the viewer is known and the card is not assigned to the viewer. The selected card of
\* each list is then clamped to the list.
applyFilter(b, s) ==
    LET got == GetColumns(s)
        storeColumns == IF got.err # ErrNone THEN EmptyMap ELSE got.columns
        passes(id) == \/ ~(b.filterMyOnly /\ s.viewerLogin # "")
                      \/ \E i \in 1..Len(s.cards[id].Assignees) :
                            s.cards[id].Assignees[i] = s.viewerLogin
        filtered == [c \in {b.columns[i] : i \in 1..Len(b.columns)} \cup DOMAIN storeColumns |->
                        IF c \in DOMAIN storeColumns
                        THEN SelectSeq(storeColumns[c], LAMBDA id : id \in DOMAIN s.cards /\ passes(id))
                        ELSE <<>>]
    IN [b EXCEPT !.filteredCards = filtered,
                 !.selectedCard = [c \in DOMAIN @ |->
                                     IF c \in DOMAIN filtered /\ @[c] >= Len(filtered[c])
                                     THEN (IF Len(filtered[c]) > 0 THEN Len(filtered[c]) - 1 ELSE 0)
                                     ELSE @[c]]]

Refresh(b, s) == applyFilter(BoardRebuildColumns(b, s), s)

getSelectedCard(b, s) ==
    IF Len(b.columns) = 0 THEN Nil
    ELSE LET colID == b.columns[b.selectedColumn + 1]
             cards == IF colID \in DOMAIN b.filteredCards THEN b.filteredCards[colID] ELSE <<>>
         IN IF Len(cards) = 0 THEN Nil
            ELSE LET cardIdx == IF b.selectedCard[colID] >= Len(cards) THEN 0
                                ELSE b.selectedCard[colID]
                     got == GetCard(s, cards[cardIdx + 1])
                 IN IF got.err # ErrNone THEN Nil ELSE got.card

\* A selection that moves without looking at the ends of the list.
moveCardSelectionFree(b, delta) ==
    IF Len(b.columns) = 0 THEN b
    ELSE [b EXCEPT !.selectedCard[b.columns[b.selectedColumn + 1]] = @ + delta]

\* moveCardSelection(delta) and jumpToCard(idx): the new index is kept inside the list.
moveCardSelection(b, delta) ==
    IF Len(b.columns) = 0 THEN b
    ELSE LET colID == b.columns[b.selectedColumn + 1]
             cards == IF colID \in DOMAIN b.filteredCards THEN b.filteredCards[colID] ELSE <<>>
             newIdx == b.selectedCard[colID] + delta
         IN IF Len(cards) = 0 THEN b
            ELSE [b EXCEPT !.selectedCard[colID] = IF newIdx < 0 THEN 0
                                                   ELSE IF newIdx >= Len(cards) THEN Len(cards) - 1
                                                   ELSE newIdx]

jumpToCard(b, idx) ==
    IF Len(b.columns) = 0 THEN b
    ELSE LET colID == b.columns[b.selectedColumn + 1]
             cards == IF colID \in DOMAIN b.filteredCards THEN b.filteredCards[colID] ELSE <<>>
         IN IF Len(cards) = 0 THEN b
            ELSE [b EXCEPT !.selectedCard[colID] = IF idx < 0 \/ idx >= Len(cards)
                                                   THEN Len(cards) - 1 ELSE idx]

moveCardToColumn(b, s, targetColID) ==
    LET card == getSelectedCard(b, s)
        newOptionID == IF targetColID = NoStatusKey THEN "" ELSE targetColID
    IN IF card = Nil THEN {Out(b, s, EmptyBag, EmptyBag)}
       ELSE {IF r.err # ErrNone
             THEN Out(b, r.store, EmptyBag, Bag1(moveErrorMsg(r.err, card.ItemID, card.GroupOptionID)))
             ELSE Out(b, r.store,
                      Bag1(moveCommand(card.ItemID, newOptionID, card.GroupOptionID,
                                       s.groupField.ID)),
                      EmptyBag) :
                r \in MoveCard(s, card.ItemID, newOptionID)}

Digits == {"1", "2"}

handleMoveMode(b, s, key) ==
    IF key \in {"esc", "q"} THEN {Out([b EXCEPT !.moveMode = FALSE], s, EmptyBag, EmptyBag)}
    ELSE IF key \in Digits
    THEN LET idx == (CHOOSE n \in 1..9 : ToString(n) = key) - 1
         IN IF idx >= 0 /\ idx < Len(b.columns)
            THEN moveCardToColumn(b, s, b.columns[idx + 1])
            ELSE {Out(b, s, EmptyBag, EmptyBag)}
    ELSE {Out(b, s, EmptyBag, EmptyBag)}

handleKeyPress(b, s, key) ==
    IF b.moveMode THEN handleMoveMode(b, s, key)
    ELSE CASE key = "h" ->
                {Out(IF b.selectedColumn > 0 THEN [b EXCEPT !.selectedColumn = @ - 1] ELSE b,
                     s, EmptyBag, EmptyBag)}
           [] key = "l" ->
                {Out(IF b.selectedColumn < Len(b.columns) - 1
                     THEN [b EXCEPT !.selectedColumn = @ + 1] ELSE b,
                     s, EmptyBag, EmptyBag)}
           [] key = "j" -> {Out(moveCardSelection(b, 1), s, EmptyBag, EmptyBag)}
           [] key = "k" -> {Out(moveCardSelection(b, -1), s, EmptyBag, EmptyBag)}
           [] key = "g" -> {Out(jumpToCard(b, 0), s, EmptyBag, EmptyBag)}
           [] key = "G" -> {Out(jumpToCard(b, -1), s, EmptyBag, EmptyBag)}
           [] key = "m" ->
                {Out(IF getSelectedCard(b, s) # Nil THEN [b EXCEPT !.moveMode = TRUE] ELSE b,
                     s, EmptyBag, EmptyBag)}
           [] key = "a" ->
                {Out(applyFilter([b EXCEPT !.filterMyOnly = ~@], s), s, EmptyBag, EmptyBag)}
           [] key = "r" -> {Out([b EXCEPT !.loading = TRUE], s, Bag1(loadAllItems), EmptyBag)}
           [] key = "f" -> {Out(b, s, EmptyBag, Bag1(changeGroupFieldMsg))}
           [] key = "enter" ->
                LET card == getSelectedCard(b, s)
                IN {Out(b, s, EmptyBag,
                        IF card # Nil THEN Bag1(openDetailMsg(card)) ELSE EmptyBag)}
           [] OTHER -> {Out(b, s, EmptyBag, EmptyBag)}

\* A loader that asks for another page whatever the answer says.
MorePagesAlways(hasMore, nextCursor) == TRUE

\* The condition both loaders continue on: more pages, and a cursor to ask for them.
MorePages(hasMore, nextCursor) == hasMore /\ nextCursor # ""

BoardUpdate(b, s, msg) ==
    CASE msg.type = "boardInitMsg" -> {Out(Refresh(b, s), s, EmptyBag, EmptyBag)}
      [] msg.type = "itemsLoadedMsg" ->
            {Out(Refresh([b EXCEPT !.loading = FALSE, !.loadingMore = FALSE], s), s,
                 EmptyBag, EmptyBag)}
      [] msg.type = "pageLoadedMsg" ->
            IF msg.err # ErrNone
            THEN {Out([b EXCEPT !.loadingMore = FALSE, !.errorToast = "Load failed: " \o msg.err],
                      s, EmptyBag, EmptyBag)}
            ELSE {IF MorePages(msg.hasMore, msg.nextCursor)
                  THEN Out([Refresh(b, t) EXCEPT !.loadingMore = TRUE,
                                                 !.nextCursor = msg.nextCursor],
                           t, Bag1(loadNextPage(msg.nextCursor)), EmptyBag)
                  ELSE Out([Refresh(b, t) EXCEPT !.loadingMore = FALSE, !.nextCursor = ""],
                           t, EmptyBag, EmptyBag) :
                    t \in UpsertCards(s, msg.cards)}
      [] msg.type = "moveSuccessMsg" ->
            {Out(Refresh([b EXCEPT !.moveMode = FALSE], s), s, EmptyBag, EmptyBag)}
      [] msg.type = "moveErrorMsg" ->
            {Out([Refresh(b, r.store) EXCEPT !.errorToast = "Move failed: " \o msg.err],
                 r.store, EmptyBag, EmptyBag) :
                r \in RollbackMove(s)}
      [] msg.type = "KeyMsg" -> handleKeyPress(b, s, msg.key)
      [] OTHER -> {Out(b, s, EmptyBag, EmptyBag)}

(***************************************************************************)
(* The other screens, as far as they talk to the board                     *)
(***************************************************************************)
\* enter on the highlighted item; the highlight is the user's choice.
PickerUpdate(fields, msg) ==
    IF msg.type = "KeyMsg" /\ msg.key = "enter"
    THEN {Bag1(FieldSelectedMsg(fields[i])) : i \in 1..Len(fields)}
    ELSE {EmptyBag}

\* What GetViewerAndOrgs answers: the viewer first, then the organisations.
Owners ==
    <<[Login |-> "testuser", Type |-> "User", ID |-> "user_1"],
      [Login |-> "testorg", Type |-> "Organization", ID |-> "org_1"]>>

\* The projects of an owner, as the service holds them.
Projects ==
    <<TestProject,
      [ID |-> "proj_456", Number |-> 2, Title |-> "Other Project", Owner |-> "testorg"]>>

\* What Client.ListProjects answers: every project is given the login passed in as Owner.
ListProjects(login) == [i \in 1..Len(Projects) |-> [Projects[i] EXCEPT !.Owner = login]]

OwnerPickerUpdate(owners, msg) ==
    IF msg.type = "KeyMsg" /\ msg.key = "enter"
    THEN {Bag1([type |-> "OwnerSelectedMsg", Owner |-> owners[i].Login,
                OwnerType |-> owners[i].Type, OwnerID |-> owners[i].ID]) : i \in 1..Len(owners)}
    ELSE {EmptyBag}

ProjectPickerUpdate(projects, msg) ==
    IF msg.type = "KeyMsg" /\ msg.key = "enter"
    THEN {Bag1([type |-> "ProjectSelectedMsg", Project |-> projects[i]]) : i \in 1..Len(projects)}
    ELSE {EmptyBag}

DetailUpdate(msg) ==
    IF msg.type = "KeyMsg" /\ msg.key \in {"q", "esc"}
    THEN {Bag1(closeDetailMsg)}
    ELSE {EmptyBag}

(***************************************************************************)
(* AppModel                                                                *)
(***************************************************************************)
\* The AppModel as constructed: the three flags, no error, no owner login, no fields yet.
NewAppModel(ownerFlag, projectFlag, groupFieldFlag) ==
    [ownerFlag |-> ownerFlag, projectFlag |-> projectFlag, groupFieldFlag |-> groupFieldFlag,
     err |-> ErrNone, ownerLogin |-> "", fields |-> <<>>]

\* The command listProjects returns: its closure holds the AppModel of the time of the
\* call, the owner login with it.
listProjects(ownerLogin) == [type |-> "listProjects", login |-> ownerLogin]

\* A search that settles for the first project when none has the number.
ProjectsNumberedOrFirst(projects, number) ==
    IF SelectSeq(projects, LAMBDA proj : proj.Number = number) # <<>>
    THEN SelectSeq(projects, LAMBDA proj : proj.Number = number)
    ELSE projects

\* The loop over the fetched projects: those with the number of the flag, in order.
ProjectsNumbered(projects, number) == SelectSeq(projects, LAMBDA proj : proj.Number = number)

\* A search that settles for all the fields when none has the name.
FieldsNamedOrAny(fields, name) ==
    IF SelectSeq(fields, LAMBDA f : f.Name = name) # <<>>
    THEN SelectSeq(fields, LAMBDA f : f.Name = name)
    ELSE fields

\* The loop over the fetched fields: those with the name of the flag, in order.
FieldsNamed(fields, name) == SelectSeq(fields, LAMBDA f : f.Name = name)

\* a: the AppModel with the store it points to; the result adds the commands issued.
AppUpdate(a, msg) ==
    CASE msg.type = "ErrorMsg" -> {[a EXCEPT !.app.err = msg.Err]}
      [] msg.type = "ownersLoadedMsg" ->
            {[a EXCEPT !.store = IF Len(msg.owners) > 0
                                 THEN SetViewerLogin(@, msg.owners[1].Login) ELSE @,
                       !.currentScreen = ScreenOwner, !.currentModel = TheOwnerPicker]}
      [] msg.type = "OwnerSelectedMsg" ->
            {[a EXCEPT !.app.ownerLogin = msg.Owner, !.currentModel = NoModel,
                       !.cmds = IF msg.OwnerID # "" THEN Bag1(listProjects(msg.Owner))
                                ELSE Bag1([type |-> "resolveOwner"])]}
      [] msg.type = "ownerResolvedMsg" -> {[a EXCEPT !.cmds = Bag1(listProjects(a.app.ownerLogin))]}
      [] msg.type = "projectsLoadedMsg" ->
            IF a.app.projectFlag > 0
            THEN LET found == ProjectsNumbered(msg.projects, a.app.projectFlag)
                 IN IF found # <<>>
                    THEN {[a EXCEPT !.store = SetProject(@, found[1]),
                                    !.cmds = Bag1([type |-> "loadFields"])]}
                    ELSE {[a EXCEPT !.app.err = "project not found for owner"]}
            ELSE {[a EXCEPT !.currentScreen = ScreenProjectPicker,
                            !.currentModel = TheProjectPicker]}
      [] msg.type = "ProjectSelectedMsg" ->
            {[a EXCEPT !.store = SetProject(@, msg.Project), !.currentModel = NoModel,
                       !.cmds = Bag1([type |-> "loadFields"])]}
      [] msg.type = "fieldsLoadedMsg" ->
            LET got == SelectGroupField(msg.fields)
                named == FieldsNamed(msg.fields, a.app.groupFieldFlag)
                b == [a EXCEPT !.app.fields = msg.fields]
            IN IF got.err # ErrNone THEN {[b EXCEPT !.app.err = got.err]}
               ELSE IF a.app.groupFieldFlag # ""
               THEN (IF named # <<>>
                     THEN {[b EXCEPT !.store = t, !.msgs = Bag1(boardReadyMsg)] :
                              t \in SetGroupField(a.store, named[1])}
                     ELSE {[b EXCEPT !.app.err = "field '" \o a.app.groupFieldFlag
                                                  \o "' not found in project"]})
               ELSE IF got.selected # Nil
               THEN {[b EXCEPT !.store = t, !.msgs = Bag1(boardReadyMsg)] :
                        t \in SetGroupField(a.store, got.selected)}
               ELSE {[b EXCEPT !.currentScreen = ScreenFieldPicker, !.currentModel = ThePicker]}
      [] msg.type = "FieldSelectedMsg" ->
            {[a EXCEPT !.store = t, !.currentModel = NoModel, !.msgs = Bag1(boardReadyMsg)] :
                t \in SetGroupField(a.store, msg.Field)}
      [] msg.type = "boardReadyMsg" ->
            {[a EXCEPT !.currentScreen = ScreenBoard, !.boardModel = NewBoardModel,
                       !.currentModel = TheBoard,
                       !.msgs = Bag1(boardInitMsg), !.cmds = Bag1(loadNextPage(""))]}
      [] msg.type = "changeGroupFieldMsg" ->
            IF SelectSeq(a.app.fields, LAMBDA f : f.Type = FieldTypeSingleSelect) = <<>>
            THEN {[a EXCEPT !.app.err = "no SINGLE_SELECT fields available"]}
            ELSE {[a EXCEPT !.currentScreen = ScreenFieldPicker, !.currentModel = ThePicker]}
      \* The detail view's own commands (spinner, comments) reach neither board nor store.
      [] msg.type = "openDetailMsg" ->
            {[a EXCEPT !.currentScreen = ScreenDetail, !.currentModel = TheDetail]}
      [] msg.type = "closeDetailMsg" ->
            {[a EXCEPT !.currentScreen = ScreenBoard, !.currentModel = TheBoard]}
      [] OTHER ->
            CASE a.currentModel = TheBoard ->
                    {[a EXCEPT !.boardModel = r.board, !.store = r.store,
                               !.cmds = r.cmds, !.msgs = r.msgs] :
                        r \in BoardUpdate(a.boardModel, a.store, msg)}
              [] a.currentModel = ThePicker ->
                    {[a EXCEPT !.msgs = m] :
                        m \in PickerUpdate(SelectSeq(a.app.fields,
                                                     LAMBDA f : f.Type = FieldTypeSingleSelect), msg)}
              [] a.currentModel = TheOwnerPicker ->
                    {[a EXCEPT !.msgs = m] : m \in OwnerPickerUpdate(Owners, msg)}
              [] a.currentModel = TheProjectPicker ->
                    {[a EXCEPT !.msgs = m] :
                        m \in ProjectPickerUpdate(ListProjects(a.app.ownerLogin), msg)}
              [] a.currentModel = TheDetail ->
                    {[a EXCEPT !.msgs = m] : m \in DetailUpdate(msg)}
              [] OTHER -> {a}

(***************************************************************************)
(* State                                                                   *)
(***************************************************************************)
VARIABLES
    store,          \* the Store
    hist,           \* the latest calls, while they are MoveCard / RollbackMove calls; in
                    \* SpecUpserts the batches upserted since the latest Clear / Reset
    pre,            \* the cards as they were before the latest call, when it was a MoveCard
    currentScreen,  \* AppModel.currentScreen
    currentModel,   \* AppModel.currentModel: which model gets the messages
    board,          \* AppModel.boardModel
    cmds,           \* commands handed to the runtime, not yet finished
    msgs,           \* messages on their way to Update
    remote,         \* the project's items on the remote service
    load,           \* history of the background load: the cards its pages delivered
    pressed,        \* key presses so far
    held,           \* what the store's caller holds: the answer to its latest call
    app             \* the rest of the AppModel: its flags, err and fields

vars ==
    <<store, hist, pre, currentScreen, currentModel, board, cmds, msgs, remote, load, pressed, held,
      app>>

appVars == <<currentScreen, currentModel, board, cmds, msgs, remote, load, pressed, held, app>>

\* All but the store and what its caller holds.
restVars ==
    <<hist, pre, currentScreen, currentModel, board, cmds, msgs, remote, load, pressed, app>>

MoveCall(id, v) == [op |-> "MoveCard", id |-> id, val |-> v, err |-> ErrNone]

RollbackCall(err) == [op |-> "RollbackMove", id |-> 0, val |-> "", err |-> err]

IsMove(h, i) == i >= 1 /\ i <= Len(h) /\ h[i].op = "MoveCard"

IsRollback(h, i) == i >= 1 /\ i <= Len(h) /\ h[i].op = "RollbackMove"

\* hist after a successful MoveCard: the move before it is kept, if it was the latest call.
AfterMove(h, id, v) ==
    IF IsMove(h, Len(h)) THEN <<h[Len(h)], MoveCall(id, v)>> ELSE <<MoveCall(id, v)>>

\* hist after a RollbackMove: the move it follows is kept, if it was the latest call.
AfterRollback(h, err) ==
    IF IsMove(h, Len(h)) THEN <<h[Len(h)], RollbackCall(err)>> ELSE <<RollbackCall(err)>>

\* The value of load once the background load has been disturbed: a page request failed,
\* a reload-all was started, or the board stopped being the active screen.
Disturbed == [undisturbed |-> FALSE, delivered |-> {}, complete |-> FALSE]

\* The answer to a call as its caller holds it: the values returned, and for a returned map
\* and its lists whether they are storage of the caller's own (copies) or the store's.
\* dirty: the caller has written to what it holds.
Answer(op, arg, value, err) ==
    [op |-> op, arg |-> arg, value |-> value, err |-> err,
     ownMap |-> TRUE, ownLists |-> TRUE, dirty |-> FALSE]

NoAnswer == Answer("none", "", Nil, ErrNone)

(***************************************************************************)
(* Spec: the Store driven through its methods                              *)
(***************************************************************************)
\* The program around the store stays as it is before anything is shown.
Init ==
    /\ store = New
    /\ hist = <<>>
    /\ pre = EmptyMap
    /\ currentScreen = ScreenLoading
    /\ currentModel = NoModel
    /\ board = Nil
    /\ cmds = EmptyBag
    /\ msgs = EmptyBag
    /\ remote = RemoteItems
    /\ load = Disturbed
    /\ pressed = 0
    /\ held = NoAnswer
    /\ app = NewAppModel("", 0, "")

CallSetGroupField ==
    /\ \E f \in FieldDefs : store' \in SetGroupField(store, f)
    /\ hist' = <<>>
    /\ pre' = EmptyMap
    /\ UNCHANGED appVars

CallUpsertCards ==
    /\ \E batch \in Batches : store' \in UpsertCards(store, batch)
    /\ hist' = <<>>
    /\ pre' = EmptyMap
    /\ UNCHANGED appVars

CallMoveCard ==
    \E id \in ItemIDs, v \in OptionIDs :
        \E r \in MoveCard(store, id, v) :
            /\ store' = r.store
            /\ hist' = IF r.err = ErrNone THEN AfterMove(hist, id, v) ELSE <<>>
            /\ pre' = IF r.err = ErrNone THEN store.cards ELSE EmptyMap
            /\ UNCHANGED appVars

CallRollbackMove ==
    \E r \in RollbackMove(store) :
        /\ store' = r.store
        /\ hist' = AfterRollback(hist, r.err)
        /\ pre' = EmptyMap
        /\ UNCHANGED appVars

CallClear ==
    /\ store' = Clear(store)
    /\ hist' = <<>>
    /\ pre' = EmptyMap
    /\ UNCHANGED appVars

CallReset ==
    /\ store' = Reset(store)
    /\ hist' = <<>>
    /\ pre' = EmptyMap
    /\ UNCHANGED appVars

Next ==
    \/ CallSetGroupField
    \/ CallUpsertCards
    \/ CallMoveCard
    \/ CallRollbackMove
    \/ CallClear
    \/ CallReset

Spec == Init /\ [][Next]_vars

(***************************************************************************)
(* Properties of the Store (Spec)                                          *)
(***************************************************************************)
Elems(seq) == {seq[i] : i \in 1..Len(seq)}

\* The bucket a grouping value belongs to: the sentinel for the empty value.
BucketOf(v) == IF v = "" THEN NoStatusKey ELSE v

LastCall(h) == h[Len(h)]

\* C1: with a grouping field set, every card identity in the store appears in exactly one
\* bucket of GetColumns(), once, and that bucket is the sentinel key iff the card's
\* grouping value is empty.
C1_EveryCardInExactlyOneBucket ==
    LET got == GetColumns(store)
    IN got.err = ErrNone =>
          \A id \in DOMAIN store.cards :
              LET holders == {k \in DOMAIN got.columns : id \in Elems(got.columns[k])}
              IN /\ Cardinality(holders) = 1
                 /\ \A k \in holders :
                       /\ Cardinality({i \in 1..Len(got.columns[k]) : got.columns[k][i] = id}) = 1
                       /\ (k = NoStatusKey) <=> (store.cards[id].GroupOptionID = "")

\* Upserts have filled the store with an ungrouped card and a grouped one.
C1_Witness ==
    /\ store.groupField # Nil
    /\ hist = <<>>
    /\ \E a, b \in DOMAIN store.cards :
          /\ store.cards[a].GroupOptionID = ""
          /\ store.cards[b].GroupOptionID # ""
          /\ a \in Elems(GetColumns(store).columns[NoStatusKey])
          /\ b \in Elems(GetColumns(store).columns[store.cards[b].GroupOptionID])

\* C2: in every reachable store state the column index is the grouping function applied to
\* the current cards: a bucket holds exactly the identities of the stored cards whose
\* grouping value is its key (sentinel for empty), no bucket is empty, no bucket holds an
\* identity that is not in the store.
C2_ColumnsAreGroupingOfCards ==
    /\ \A k \in DOMAIN store.columns :
          /\ store.columns[k] # <<>>
          /\ Elems(store.columns[k])
                = {id \in DOMAIN store.cards : BucketOf(store.cards[id].GroupOptionID) = k}
          /\ Len(store.columns[k]) = Cardinality(Elems(store.columns[k]))
    /\ \A id \in DOMAIN store.cards :
          BucketOf(store.cards[id].GroupOptionID) \in DOMAIN store.columns

\* A move has just put two cards into one bucket.
C2_Witness ==
    /\ IsMove(hist, Len(hist))
    /\ \E k \in DOMAIN store.columns : Len(store.columns[k]) >= 2
    /\ pre # store.cards

\* C3: MoveCard(id, v) immediately followed by RollbackMove restores the card's pre-move
\* grouping value and bucket; a RollbackMove right after a RollbackMove fails with the
\* no-rollback-state error.
C3_MoveThenRollbackRestores ==
    [][/\ (IsMove(hist, Len(hist)) /\ IsRollback(hist', Len(hist'))) =>
            LET id == LastCall(hist).id
            IN /\ LastCall(hist').err = ErrNone
               /\ id \in DOMAIN store'.cards
               /\ store'.cards[id].GroupOptionID = pre[id].GroupOptionID
               /\ \A k \in DOMAIN store'.columns :
                     (id \in Elems(store'.columns[k])) <=> (k = BucketOf(pre[id].GroupOptionID))
               /\ BucketOf(pre[id].GroupOptionID) \in DOMAIN store'.columns
       /\ (IsRollback(hist, Len(hist)) /\ IsRollback(hist', Len(hist'))) =>
            /\ LastCall(hist').err = ErrNoRollback
            /\ store' = store
      ]_vars

\* A card was moved to another value and rolled back at once.
C3_Witness ==
    /\ Len(hist) = 2
    /\ IsMove(hist, 1)
    /\ hist[2] = RollbackCall(ErrNone)
    /\ hist[1].id \in DOMAIN store.cards
    /\ store.cards[hist[1].id].GroupOptionID # hist[1].val

C7_RollbackRestoresWholeCard ==
    [][(IsMove(hist, Len(hist)) /\ IsRollback(hist', Len(hist'))) => store'.cards = pre]_vars

(***************************************************************************)
(* SpecCaller: a caller of the Store that holds the answer to its latest   *)
(* call and writes to the map and the lists it was handed                  *)
(***************************************************************************)
\* An identity no card has.
FakeID == 0

\* A GetColumns that copies the map but hands out the store's own lists.
ColumnsAnswerShallow(s) ==
    LET got == GetColumns(s)
    IN [Answer("GetColumns", "", got.columns, got.err) EXCEPT !.ownLists = FALSE]

\* GetColumns as its caller sees it: a new map (make) of new lists (make, copy).
ColumnsAnswer(s) ==
    LET got == GetColumns(s)
    IN Answer("GetColumns", "", got.columns, got.err)

\* GetColumnCardIDs as its caller sees it: a new list (make, copy), or a new empty one.
ColumnCardIDsAnswer(s, optionID) ==
    Answer("GetColumnCardIDs", optionID, GetColumnCardIDs(s, optionID), ErrNone)

\* The writes open to the holder of a map of lists m: columns[k] = []string{"fake_id"},
\* columns[k] = append(columns[k], "fake_id"), columns[k][i] = "fake_id", delete(columns, k).
MapWrites(m) ==
    {[kind |-> "put", key |-> k, i |-> 0, list |-> l] :
        k \in DOMAIN m, l \in {<<FakeID>>}}
    \cup {[kind |-> "put", key |-> k, i |-> 0, list |-> m[k] \o <<FakeID>>] : k \in DOMAIN m}
    \cup {[kind |-> "set", key |-> ki[1], i |-> ki[2], list |-> <<>>] :
            ki \in {x \in (DOMAIN m) \X (1..NumItems) : x[2] <= Len(m[x[1]])}}
    \cup {[kind |-> "delete", key |-> k, i |-> 0, list |-> <<>>] : k \in DOMAIN m}

\* The writes open to the holder of a list ids: ids[i] = "fake_id", ids = append(ids, "fake_id").
ListWrites(ids) ==
    {[kind |-> "set", key |-> "", i |-> i, list |-> <<>>] : i \in 1..Len(ids)}
    \cup {[kind |-> "put", key |-> "", i |-> 0, list |-> ids \o <<FakeID>>]}

\* A map of lists after a write to it.
WrittenMap(m, w) ==
    CASE w.kind = "put" -> [m EXCEPT ![w.key] = w.list]
      [] w.kind = "set" -> [m EXCEPT ![w.key][w.i] = FakeID]
      [] w.kind = "delete" -> [k \in (DOMAIN m) \ {w.key} |-> m[k]]

\* A list after a write to it.
WrittenList(ids, w) ==
    CASE w.kind = "put" -> w.list
      [] w.kind = "set" -> [ids EXCEPT ![w.i] = FakeID]

\* The store after the caller's write w to the answer h it holds: a write lands in the
\* store where the storage written to is the store's own.
StoreAfterWrite(s, h, w) ==
    CASE h.op = "GetColumns" ->
            IF w.kind = "set"
            THEN (IF h.ownLists THEN s ELSE [s EXCEPT !.columns = WrittenMap(@, w)])
            ELSE (IF h.ownMap THEN s ELSE [s EXCEPT !.columns = WrittenMap(@, w)])
      [] h.op = "GetColumnCardIDs" ->
            IF w.kind = "set" /\ ~h.ownLists /\ h.arg \in DOMAIN s.columns
            THEN [s EXCEPT !.columns[h.arg][w.i] = FakeID]
            ELSE s

\* The pagination states a caller sets: none, or a cursor with more pages to come.
Paginations == {<<"", FALSE>>, <<EndCursor(1), TRUE>>}

CallerSetProject ==
    /\ store' = SetProject(store, TestProject)
    /\ held' = Answer("SetProject", "", Nil, ErrNone)
    /\ UNCHANGED restVars

CallerSetGroupField ==
    /\ \E f \in FieldDefs : store' \in SetGroupField(store, f)
    /\ held' = Answer("SetGroupField", "", Nil, ErrNone)
    /\ UNCHANGED restVars

CallerUpsertCards ==
    /\ \E batch \in Batches : store' \in UpsertCards(store, batch)
    /\ held' = Answer("UpsertCards", "", Nil, ErrNone)
    /\ UNCHANGED restVars

CallerMoveCard ==
    /\ \E id \in ItemIDs, v \in OptionIDs :
          \E r \in MoveCard(store, id, v) :
              /\ store' = r.store
              /\ held' = Answer("MoveCard", <<id, v>>, Nil, r.err)
    /\ UNCHANGED restVars

CallerRollbackMove ==
    /\ \E r \in RollbackMove(store) :
          /\ store' = r.store
          /\ held' = Answer("RollbackMove", "", Nil, r.err)
    /\ UNCHANGED restVars

CallerSetPagination ==
    /\ \E p \in Paginations : store' = SetPagination(store, p[1], p[2])
    /\ held' = Answer("SetPagination", "", Nil, ErrNone)
    /\ UNCHANGED restVars

\* The answer to Clear and to Reset carries history: the store as it was when called.
CallerClear ==
    /\ store' = Clear(store)
    /\ held' = Answer("Clear", store, Nil, ErrNone)
    /\ UNCHANGED restVars

CallerReset ==
    /\ store' = Reset(store)
    /\ held' = Answer("Reset", store, Nil, ErrNone)
    /\ UNCHANGED restVars

CallerGetCard ==
    /\ \E id \in ItemIDs :
          LET got == GetCard(store, id)
          IN held' = Answer("GetCard", id, got.card, got.err)
    /\ UNCHANGED <<store, restVars>>

CallerGetColumns ==
    /\ held' = ColumnsAnswer(store)
    /\ UNCHANGED <<store, restVars>>

CallerGetColumnCardIDs ==
    /\ \E k \in ColumnKeys : held' = ColumnCardIDsAnswer(store, k)
    /\ UNCHANGED <<store, restVars>>

CallerValidateOption ==
    /\ \E v \in OptionIDs : held' = Answer("ValidateOption", v, Nil, ValidateOption(store, v))
    /\ UNCHANGED <<store, restVars>>

\* The caller writes, once, to the map or the list it was handed by its latest call.
CallerWrites ==
    /\ ~held.dirty
    /\ held.err = ErrNone
    /\ \/ /\ held.op = "GetColumns"
          /\ \E w \in MapWrites(held.value) :
                /\ held' = [held EXCEPT !.value = WrittenMap(@, w), !.dirty = TRUE]
                /\ store' = StoreAfterWrite(store, held, w)
       \/ /\ held.op = "GetColumnCardIDs"
          /\ \E w \in ListWrites(held.value) :
                /\ held' = [held EXCEPT !.value = WrittenList(@, w), !.dirty = TRUE]
                /\ store' = StoreAfterWrite(store, held, w)
    /\ UNCHANGED restVars

NextCaller ==
    \/ CallerSetGroupField
    \/ CallerUpsertCards
    \/ CallerClear
    \/ CallerReset
    \/ CallerGetColumns
    \/ CallerGetColumnCardIDs
    \/ CallerValidateOption
    \/ CallerWrites

SpecCaller == Init /\ [][NextCaller]_vars

(***************************************************************************)
(* SpecFrame: one call of any method of the Store, on a store its caller   *)
(* has filled before                                                       *)
(***************************************************************************)
\* The stores a caller has prepared from New(): a project or none, a grouping field or
\* none, one batch of cards or none, one move or none, a pagination state or none.
PreparedStores ==
    LET s1 == {New, SetProject(New, TestProject)}
        s2 == s1 \cup UNION {SetGroupField(s, f) : s \in s1, f \in FieldDefs}
        s3 == s2 \cup UNION {UpsertCards(s, batch) : s \in s2, batch \in Batches}
        s4 == s3 \cup {r.store : r \in UNION {MoveCard(s, m[1], m[2]) :
                                                s \in s3, m \in ItemIDs \X OptionIDs}}
    IN s4 \cup {SetPagination(s, p[1], p[2]) : s \in s4, p \in Paginations}

InitFrame ==
    /\ store \in PreparedStores
    /\ hist = <<>>
    /\ pre = EmptyMap
    /\ currentScreen = ScreenLoading
    /\ currentModel = NoModel
    /\ board = Nil
    /\ cmds = EmptyBag
    /\ msgs = EmptyBag
    /\ remote = RemoteItems
    /\ load = Disturbed
    /\ pressed = 0
    /\ held = NoAnswer
    /\ app = NewAppModel("", 0, "")

NextFrame ==
    \/ held = NoAnswer /\ CallerSetProject
    \/ held = NoAnswer /\ CallerSetGroupField
    \/ held = NoAnswer /\ CallerUpsertCards
    \/ held = NoAnswer /\ CallerMoveCard
    \/ held = NoAnswer /\ CallerRollbackMove
    \/ held = NoAnswer /\ CallerSetPagination
    \/ held = NoAnswer /\ CallerClear
    \/ held = NoAnswer /\ CallerReset
    \/ held = NoAnswer /\ CallerGetCard
    \/ held = NoAnswer /\ CallerGetColumns
    \/ held = NoAnswer /\ CallerGetColumnCardIDs
    \/ held = NoAnswer /\ CallerValidateOption

SpecFrame == InitFrame /\ [][NextFrame]_vars

(***************************************************************************)
(* SpecUpserts: sequences of UpsertCards calls, with Clear, Reset and      *)
(* GetCard in between                                                      *)
(***************************************************************************)
\* The card with its title edited, as the remote returns it after a rename.
Retitled(card) == [card EXCEPT !.Title = "Updated title"]

\* The batches of SpecUpserts: one card, one renamed card, a card of every identity, and a
\* batch that holds one identity twice.
UpsertBatches ==
    {<<Card(i, v)>> : i \in ItemIDs, v \in OptionIDs}
    \cup {<<Retitled(Card(i, "opt_todo"))>> : i \in ItemIDs}
    \cup {[i \in ItemIDs |-> Card(i, "")]}
    \cup {<<Card(1, "opt_todo"), Retitled(Card(1, ""))>>}

TrackedUpsertCards ==
    /\ Len(hist) < MaxUpserts
    /\ \E batch \in UpsertBatches :
          /\ store' \in UpsertCards(store, batch)
          /\ hist' = Append(hist, batch)
          /\ held' = Answer("UpsertCards", batch, Nil, ErrNone)
    /\ UNCHANGED <<pre, currentScreen, currentModel, board, cmds, msgs, remote, load, pressed, app>>

NextUpserts ==
    \/ TrackedUpsertCards
    \/ CallClear
    \/ CallReset
    \/ CallerGetCard

SpecUpserts == Init /\ [][NextUpserts]_vars

(***************************************************************************)
(* SpecStale: UpsertCards calls, as the pages of a load make them, around  *)
(* an optimistic MoveCard and its RollbackMove                             *)
(***************************************************************************)
\* The caller moves a card; it holds the answer, the batches upserted stay on record.
StaleMoveCard ==
    /\ \E id \in ItemIDs, v \in OptionIDs :
          \E r \in MoveCard(store, id, v) :
              /\ store' = r.store
              /\ held' = Answer("MoveCard", <<id, v>>, Nil, r.err)
    /\ UNCHANGED <<hist, pre, currentScreen, currentModel, board, cmds, msgs, remote, load,
                   pressed, app>>

\* The move failed on the server: the caller rolls it back.
StaleRollbackMove ==
    /\ \E r \in RollbackMove(store) :
          /\ store' = r.store
          /\ held' = Answer("RollbackMove", "", Nil, r.err)
    /\ UNCHANGED <<hist, pre, currentScreen, currentModel, board, cmds, msgs, remote, load,
                   pressed, app>>

NextStale ==
    \/ TrackedUpsertCards
    \/ StaleMoveCard
    \/ StaleRollbackMove

SpecStale == Init /\ [][NextStale]_vars

(***************************************************************************)
(* SpecSelect: SelectGroupField applied to the field lists of a project    *)
(***************************************************************************)
\* The fields a project can have: Status, Priority and Team as the store tests build them,
\* a single-select field named status in lower case, and a text field named Status.
SampleFields ==
    {StatusField, PriorityField,
     [ID |-> "field_team", Name |-> "Team", Type |-> FieldTypeSingleSelect,
      Options |-> <<"opt_team1">>],
     [ID |-> "field_lower", Name |-> "status", Type |-> FieldTypeSingleSelect,
      Options |-> <<"opt_1">>],
     [ID |-> "field_text", Name |-> "Status", Type |-> "TEXT", Options |-> <<>>]}

\* The answer holds the three results as value.selected, value.candidates and err.
CallerSelectGroupField ==
    /\ \E n \in 0..MaxFields :
          \E fields \in [1..n -> SampleFields] :
              LET got == SelectGroupField(fields)
              IN held' = Answer("SelectGroupField", fields,
                                [selected |-> got.selected, candidates |-> got.candidates],
                                got.err)
    /\ UNCHANGED <<store, restVars>>

SpecSelect == Init /\ [][CallerSelectGroupField]_vars

(***************************************************************************)
(* SpecApp: the program from the moment the grouping field is chosen;      *)
(* Update handles one message at a time, commands run out of line          *)
(***************************************************************************)
TheApp ==
    [store |-> store, currentScreen |-> currentScreen, currentModel |-> currentModel,
     boardModel |-> board, cmds |-> EmptyBag, msgs |-> EmptyBag, app |-> app]

\* fieldsLoadedMsg has been processed: project set, Status picked automatically, the
\* board-ready message on its way.
InitApp ==
    /\ store \in SetGroupField(SetProject(New, TestProject), StatusField)
    /\ hist = <<>>
    /\ pre = EmptyMap
    /\ currentScreen = ScreenLoading
    /\ currentModel = NoModel
    /\ board = Nil
    /\ cmds = EmptyBag
    /\ msgs = Bag1(boardReadyMsg)
    /\ remote = RemoteItems
    /\ load = [undisturbed |-> TRUE, delivered |-> {}, complete |-> FALSE]
    /\ pressed = 0
    /\ held = NoAnswer
    /\ app = [NewAppModel("", 0, "") EXCEPT !.fields = Fields]

Installs(r) ==
    /\ store' = r.store
    /\ currentScreen' = r.currentScreen
    /\ currentModel' = r.currentModel
    /\ board' = r.boardModel
    /\ app' = r.app

KeysOf(model) ==
    CASE model = TheBoard ->
            {"h", "l", "j", "k", "g", "G", "a", "m", "r", "f", "enter", "esc"} \cup Digits
      [] model = ThePicker -> {"enter"}
      [] model = TheDetail -> {"esc"}
      [] OTHER -> {"enter"}

\* The keys that neither leave the board nor start a reload-all.
BoardStayKeys == {"h", "l", "m", "esc"} \cup Digits

\* A key press that changes something: AppModel.Update(tea.KeyMsg).
PressKeyIn(K) ==
    \E key \in K \cap KeysOf(currentModel) :
        \E r \in AppUpdate(TheApp, KeyMsg(key)) :
            /\ pressed < MaxKeys
            /\ r # TheApp
            /\ pressed' = pressed + 1
            /\ Installs(r)
            /\ cmds' = cmds (+) r.cmds
            /\ msgs' = msgs (+) r.msgs
            /\ load' = IF r.msgs # EmptyBag \/ BagIn(loadAllItems, r.cmds) THEN Disturbed ELSE load
            /\ UNCHANGED <<remote, hist, pre, held>>

\* The keys of SpecApp: columns, move, reload, field picker, detail view.
PressKey == PressKeyIn({"h", "l", "m", "r", "f", "enter", "esc"} \cup Digits)

PressBoardKey == PressKeyIn(BoardStayKeys)

\* A message reaches the program: AppModel.Update(msg).
Deliver(msg) ==
    /\ BagIn(msg, msgs)
    /\ \E r \in AppUpdate(TheApp, msg) :
          /\ Installs(r)
          /\ cmds' = cmds (+) r.cmds
          /\ msgs' = (msgs (-) Bag1(msg)) (+) r.msgs
    /\ load' = IF load.undisturbed /\ msg.type = "pageLoadedMsg" /\ currentModel = TheBoard
               THEN [load EXCEPT !.delivered = @ \cup {msg.cards[i].ItemID : i \in 1..Len(msg.cards)},
                                 !.complete = ~(msg.hasMore /\ msg.nextCursor # "")]
               ELSE load
    /\ UNCHANGED <<remote, hist, pre, pressed, held>>

\* The closure of loadNextPage runs.
RunLoadNextPage(c) ==
    /\ BagIn(c, cmds)
    /\ c.type = "loadNextPage"
    /\ cmds' = cmds (-) Bag1(c)
    /\ IF store.project = Nil \/ store.groupField = Nil
       THEN /\ msgs' = msgs (+) Bag1(pageLoadedMsg(<<>>, "", FALSE, ErrMissing, ""))
            /\ load' = Disturbed
       ELSE \E got \in GetItems(remote, store.groupField.Name, c.cursor, PageSize) :
               /\ msgs' = msgs (+) Bag1(pageLoadedMsg(got.cards, got.nextCursor, got.hasMore,
                                                       got.err, store.groupField.ID))
               /\ load' = IF got.err # ErrNone THEN Disturbed ELSE load
    /\ UNCHANGED <<store, currentScreen, currentModel, board, remote, hist, pre, pressed, held, app>>

\* The closure of moveCardToColumn runs.
RunMove(c) ==
    /\ BagIn(c, cmds)
    /\ c.type = "moveCardToColumn"
    /\ cmds' = cmds (-) Bag1(c)
    /\ IF store.project = Nil \/ store.groupField = Nil
       THEN /\ msgs' = msgs (+) Bag1(moveErrorMsg(ErrMissing, c.itemID, c.preMove))
            /\ remote' = remote
       ELSE \E got \in UpdateItemField(remote, c.itemID, store.groupField.ID, c.newOptionID) :
               /\ remote' = got.remote
               /\ msgs' = msgs (+) Bag1(IF got.err # ErrNone
                                        THEN moveErrorMsg(got.err, c.itemID, c.preMove)
                                        ELSE moveSuccessMsg)
    /\ UNCHANGED <<store, currentScreen, currentModel, board, load, hist, pre, pressed, held, app>>

\* The closure of loadAllItems runs up to its first request: it clears the store.
RunLoadAllItemsClear(c) ==
    /\ BagIn(c, cmds)
    /\ c.type = "loadAllItems"
    /\ c.pc = "start"
    /\ IF store.project = Nil \/ store.groupField = Nil
       THEN /\ cmds' = cmds (-) Bag1(c)
            /\ msgs' = msgs (+) Bag1(itemsErrorMsg(ErrMissing))
            /\ store' = store
       ELSE /\ cmds' = (cmds (-) Bag1(c))
                        (+) Bag1([c EXCEPT !.pc = "cleared", !.groupField = store.groupField.Name])
            /\ msgs' = msgs
            /\ store' = Clear(store)
    /\ UNCHANGED <<currentScreen, currentModel, board, remote, load, hist, pre, pressed, held,
                 app>>

\* The closure of loadAllItems runs on: one turn of its page loop. A failed request ends
\* it, the last page ends it with the upsert of all it has collected.
RunLoadAllItemsFetch(c) ==
    /\ BagIn(c, cmds)
    /\ c.type = "loadAllItems"
    /\ c.pc = "cleared"
    /\ \E got \in GetItems(remote, c.groupField, c.cursor, PageSize) :
          IF got.err # ErrNone
          THEN /\ cmds' = cmds (-) Bag1(c)
               /\ msgs' = msgs (+) Bag1(itemsErrorMsg(got.err))
               /\ store' = store
          ELSE IF MorePages(got.hasMore, got.nextCursor)
          THEN /\ cmds' = (cmds (-) Bag1(c))
                           (+) Bag1([c EXCEPT !.cursor = got.nextCursor,
                                              !.allCards = @ \o got.cards])
               /\ msgs' = msgs
               /\ store' = store
          ELSE /\ cmds' = cmds (-) Bag1(c)
               /\ msgs' = msgs (+) Bag1(itemsLoadedMsg)
               /\ \E t \in UpsertCards(store, c.allCards \o got.cards) :
                     store' = SetPagination(t, "", FALSE)
    /\ UNCHANGED <<currentScreen, currentModel, board, remote, load, hist, pre, pressed, held,
                 app>>

RunCommand(c) ==
    \/ RunLoadNextPage(c)
    \/ RunMove(c)
    \/ RunLoadAllItemsClear(c)
    \/ RunLoadAllItemsFetch(c)

NextApp ==
    \/ PressKey
    \/ \E msg \in BagToSet(msgs) : Deliver(msg)
    \/ \E c \in BagToSet(cmds) : RunLoadNextPage(c)
    \/ \E c \in BagToSet(cmds) : RunMove(c)
    \/ \E c \in BagToSet(cmds) : RunLoadAllItemsClear(c)
    \/ \E c \in BagToSet(cmds) : RunLoadAllItemsFetch(c)

SpecApp == InitApp /\ [][NextApp]_vars

(***************************************************************************)
(* SpecLoad: the background load with the board as the active screen       *)
(* throughout and no reload-all                                            *)
(***************************************************************************)
NextLoad ==
    \/ PressBoardKey
    \/ \E msg \in BagToSet(msgs) : Deliver(msg)
    \/ \E c \in BagToSet(cmds) : RunLoadNextPage(c)
    \/ \E c \in BagToSet(cmds) : RunMove(c)

SpecLoad == InitApp /\ [][NextLoad]_vars

(***************************************************************************)
(* SpecPages: the two loaders, background pagination and reload-all, over  *)
(* projects of any size, the empty one included; the runtime runs every    *)
(* command and delivers every message                                      *)
(***************************************************************************)
\* The projects the remote can hold: the first n items, for every n from none to all.
RemoteStates ==
    {[f \in DOMAIN RemoteItems |-> [i \in 1..n |-> RemoteItems[f][i]]] : n \in 0..NumItems}

InitPages ==
    /\ store \in SetGroupField(SetProject(New, TestProject), StatusField)
    /\ hist = <<>>
    /\ pre = EmptyMap
    /\ currentScreen = ScreenLoading
    /\ currentModel = NoModel
    /\ board = Nil
    /\ cmds = EmptyBag
    /\ msgs = Bag1(boardReadyMsg)
    /\ remote \in RemoteStates
    /\ load = [undisturbed |-> TRUE, delivered |-> {}, complete |-> FALSE]
    /\ pressed = 0
    /\ held = NoAnswer
    /\ app = [NewAppModel("", 0, "") EXCEPT !.fields = Fields]

PressReload == PressKeyIn({"r"})

NextPages ==
    \/ PressReload
    \/ \E msg \in BagToSet(msgs) : Deliver(msg)
    \/ \E c \in BagToSet(cmds) : RunLoadNextPage(c)
    \/ \E c \in BagToSet(cmds) : RunLoadAllItemsClear(c)
    \/ \E c \in BagToSet(cmds) : RunLoadAllItemsFetch(c)

\* Bubble Tea runs each command on a goroutine of its own and feeds what it returns to
\* Update: while something is handed to the runtime, the runtime takes a step.
FairPages ==
    WF_vars((\E msg \in BagToSet(msgs) : Deliver(msg)) \/ (\E c \in BagToSet(cmds) : RunCommand(c)))

SpecPages == InitPages /\ [][NextPages]_vars /\ FairPages

(***************************************************************************)
(* SpecBoot: the bootstrap sequence, from AppModel.Init to the board:      *)
(* owners, projects and fields are fetched, flags or pickers choose        *)
(***************************************************************************)
\* The field lists GetProjectFields answers with: none; a text field named Status alone, or
\* followed by Priority; Status and Priority; Priority and Team.
FetchedFields ==
    LET field(id) == CHOOSE f \in SampleFields : f.ID = id
    IN {<<>>, <<field("field_text")>>, <<field("field_text"), PriorityField>>,
        <<StatusField, PriorityField>>, <<PriorityField, field("field_team")>>}

\* The closures of fetchOwners, resolveOwner, listProjects and loadFields run; each request
\* can fail. resolveOwner fetches the viewer first and sets the viewer login in the store.
RunBoot(c) ==
    /\ BagIn(c, cmds)
    /\ cmds' = cmds (-) Bag1(c)
    /\ \/ /\ c.type = "fetchOwners"
          /\ \E m \in {[type |-> "ownersLoadedMsg", owners |-> Owners],
                        [type |-> "ErrorMsg", Err |-> "failed to fetch owners: " \o ErrRequest]} :
                msgs' = msgs (+) Bag1(m)
          /\ store' = store
       \/ /\ c.type = "resolveOwner"
          /\ store' \in {store, SetViewerLogin(store, Owners[1].Login)}
          /\ \E m \in {[type |-> "ownerResolvedMsg"],
                        [type |-> "ErrorMsg", Err |-> "failed to resolve owner: " \o ErrRequest]} :
                msgs' = msgs (+) Bag1(m)
       \/ /\ c.type = "listProjects"
          /\ \E m \in {[type |-> "projectsLoadedMsg", projects |-> ListProjects(c.login)],
                        [type |-> "ErrorMsg", Err |-> "no projects found for owner"],
                        [type |-> "ErrorMsg", Err |-> "failed to list projects: " \o ErrRequest]} :
                msgs' = msgs (+) Bag1(m)
          /\ store' = store
       \/ /\ c.type = "loadFields"
          /\ \E m \in {[type |-> "fieldsLoadedMsg", fields |-> fields] : fields \in FetchedFields}
                       \cup {[type |-> "ErrorMsg",
                               Err |-> "failed to load project fields: " \o ErrRequest]} :
                msgs' = msgs (+) Bag1(m)
          /\ store' = store
    /\ UNCHANGED <<currentScreen, currentModel, board, remote, load, hist, pre, pressed, held, app>>

\* AppModel.Init has returned its command: resolveOwner with an owner flag, fetchOwners
\* without. The flags: an owner or none; no project number, one a project has, one no
\* project has; no field name, the name Status, a name no field has.
InitBoot ==
    /\ store = New
    /\ hist = <<>>
    /\ pre = EmptyMap
    /\ currentScreen = ScreenLoading
    /\ currentModel = NoModel
    /\ board = Nil
    /\ app \in {NewAppModel(o, n, f) :
                    o \in {"", "testorg"}, n \in {0, 1, 7}, f \in {"", "Status", "Points"}}
    /\ cmds = IF app.ownerFlag # "" THEN Bag1([type |-> "resolveOwner"])
              ELSE Bag1([type |-> "fetchOwners"])
    /\ msgs = EmptyBag
    /\ remote = RemoteItems
    /\ load = Disturbed
    /\ pressed = 0
    /\ held = NoAnswer

\* enter on a picker; the runtime delivers messages and runs the bootstrap commands.
NextBoot ==
    \/ currentModel \in {TheOwnerPicker, TheProjectPicker, ThePicker} /\ PressKeyIn({"enter"})
    \/ \E msg \in BagToSet(msgs) : Deliver(msg)
    \/ \E c \in BagToSet(cmds) : RunBoot(c)

SpecBoot == InitBoot /\ [][NextBoot]_vars

(***************************************************************************)
(* SpecMove: the user has just moved the selected card (m, then a digit)   *)
(* on a board that shows every card of the project; further moves, and a   *)
(* change of the grouping field                                            *)
(***************************************************************************)
\* What Update made of the digit, on the loaded board in move mode.
InitMove ==
    /\ \E s \in UNION {UpsertCards(t, [i \in ItemIDs |-> Card(i, RemoteItems[StatusField.ID][i])]) :
                          t \in SetGroupField(SetProject(New, TestProject), StatusField)} :
          \E key \in Digits :
             \E r \in AppUpdate([store |-> s, currentScreen |-> ScreenBoard,
                                 currentModel |-> TheBoard,
                                 boardModel |-> [Refresh(NewBoardModel, s) EXCEPT !.moveMode = TRUE],
                                 cmds |-> EmptyBag, msgs |-> EmptyBag,
                                 app |-> [NewAppModel("", 0, "") EXCEPT !.fields = Fields]],
                                KeyMsg(key)) :
                /\ store = r.store
                /\ currentScreen = r.currentScreen
                /\ currentModel = r.currentModel
                /\ board = r.boardModel
                /\ cmds = r.cmds
                /\ msgs = r.msgs
                /\ app = r.app
    /\ hist = <<>>
    /\ pre = EmptyMap
    /\ remote = RemoteItems
    /\ load = [undisturbed |-> TRUE, delivered |-> ItemIDs, complete |-> TRUE]
    /\ pressed = 0
    /\ held = NoAnswer

\* The keys are those of a move and of a change of the grouping field.
NextMove ==
    \/ PressKeyIn(Digits \cup {"esc", "f", "enter"})
    \/ \E msg \in BagToSet(msgs) : Deliver(msg)
    \/ \E c \in BagToSet(cmds) : RunLoadNextPage(c)
    \/ \E c \in BagToSet(cmds) : RunMove(c)

SpecMove == InitMove /\ [][NextMove]_vars

(***************************************************************************)
(* SpecReload: reload-all (key r) on a board at rest that shows every card *)
(* the project had when it was loaded, with or without a move made since;  *)
(* the project may have lost items on the remote in the meantime           *)
(***************************************************************************)
InitReload ==
    /\ LET loaded == UNION {UpsertCards(t, [i \in ItemIDs |->
                                                Card(i, RemoteItems[StatusField.ID][i])]) :
                               t \in SetGroupField(SetProject(New, TestProject), StatusField)}
       IN store \in loaded \cup {r.store : r \in UNION {MoveCard(t, i, "") :
                                                          t \in loaded, i \in ItemIDs}}
    /\ hist = <<>>
    /\ pre = EmptyMap
    /\ currentScreen = ScreenBoard
    /\ currentModel = TheBoard
    /\ board = Refresh(NewBoardModel, store)
    /\ cmds = EmptyBag
    /\ msgs = EmptyBag
    /\ remote \in RemoteStates
    /\ load = [undisturbed |-> TRUE, delivered |-> ItemIDs, complete |-> TRUE]
    /\ pressed = 0
    /\ held = NoAnswer
    /\ app = [NewAppModel("", 0, "") EXCEPT !.fields = Fields]

NextReload ==
    \/ PressReload
    \/ \E msg \in BagToSet(msgs) : Deliver(msg)
    \/ \E c \in BagToSet(cmds) : RunLoadAllItemsClear(c)
    \/ \E c \in BagToSet(cmds) : RunLoadAllItemsFetch(c)

SpecReload == InitReload /\ [][NextReload]_vars

(***************************************************************************)
(* SpecNav: the board from its start, with the keys that move the          *)
(* selection, the assigned-to-me filter and moves, while the pages of the  *)
(* project arrive; the items may all sit in one column                     *)
(***************************************************************************)
InitNav ==
    /\ store \in SetGroupField(SetProject(SetViewerLogin(New, "testuser"), TestProject),
                               StatusField)
    /\ hist = <<>>
    /\ pre = EmptyMap
    /\ currentScreen = ScreenLoading
    /\ currentModel = NoModel
    /\ board = Nil
    /\ cmds = EmptyBag
    /\ msgs = Bag1(boardReadyMsg)
    /\ remote \in {RemoteItems} \cup
                  {[f \in DOMAIN RemoteItems |->
                        [i \in ItemIDs |-> IF f = StatusField.ID THEN v ELSE ""]] :
                     v \in {"opt_todo", ""}}
    /\ load = [undisturbed |-> TRUE, delivered |-> {}, complete |-> FALSE]
    /\ pressed = 0
    /\ held = NoAnswer
    /\ app = [NewAppModel("", 0, "") EXCEPT !.fields = Fields]

NextNav ==
    \/ PressKeyIn({"h", "l", "j", "k", "g", "G", "a", "m", "esc"} \cup Digits)
    \/ \E msg \in BagToSet(msgs) : Deliver(msg)
    \/ \E c \in BagToSet(cmds) : RunLoadNextPage(c)
    \/ \E c \in BagToSet(cmds) : RunMove(c)

SpecNav == InitNav /\ [][NextNav]_vars

(***************************************************************************)
(* SpecDetour: the background load while the user opens the detail view or *)
(* the field picker and returns; every page request succeeds, and the      *)
(* runtime runs every command and delivers every message                   *)
(***************************************************************************)
NextDetour ==
    \/ PressKeyIn({"enter", "esc", "f"})
    \/ \E msg \in BagToSet(msgs) : Deliver(msg)
    \/ \E c \in BagToSet(cmds) :
          /\ RunLoadNextPage(c)
          /\ \A m \in BagToSet(msgs') : m.type = "pageLoadedMsg" => m.err = ErrNone

FairDetour == WF_vars(NextDetour /\ pressed' = pressed)

SpecDetour == InitApp /\ [][NextDetour]_vars /\ FairDetour

(***************************************************************************)
(* Properties of the application (SpecApp, SpecLoad, SpecPages, SpecBoot,  *)
(* SpecMove, SpecReload, SpecNav, SpecDetour)                              *)
(***************************************************************************)
\* The moves whose remote update has not been answered to Update yet.
PendingMoves ==
    BagCardinality([c \in {x \in BagToSet(cmds) : x.type = "moveCardToColumn"} |->
                        CopiesIn(c, cmds)])
    + BagCardinality([m \in {x \in BagToSet(msgs) : x.type \in {"moveSuccessMsg", "moveErrorMsg"}} |->
                        CopiesIn(m, msgs)])

\* C4: whenever the remote update of an optimistic move fails, then once the failure event
\* has been processed the moved card is back at its pre-move grouping value and column and
\* the 'Move failed' notice with the cause is set, whatever happened between the move and
\* its failure.
C4_FailedMoveIsRolledBack ==
    [][\A msg \in BagToSet(msgs) :
          (msg.type = "moveErrorMsg" /\ Deliver(msg)) =>
              /\ msg.itemID \in DOMAIN store'.cards
              /\ store'.cards[msg.itemID].GroupOptionID = msg.preMove
              /\ msg.itemID \in Elems(GetColumnCardIDs(store', BucketOf(msg.preMove)))
              /\ board'.errorToast = "Move failed: " \o msg.err
      ]_vars

\* C6: at most one optimistic move is pending at any time.
C6_AtMostOneMovePending == PendingMoves <= 1

\* C8: a page fetched under a grouping field that is no longer the current one is ignored
\* when it arrives: the stored cards stay as they are and no further page is requested.
C8_StalePageIsIgnored ==
    [][\A msg \in BagToSet(msgs) :
          (/\ msg.type = "pageLoadedMsg"
           /\ msg.err = ErrNone
           /\ msg.fetchedFor # store.groupField.ID
           /\ Deliver(msg)) =>
              /\ store'.cards = store.cards
              /\ cmds' = cmds
      ]_vars

\* C9: no command touches the Store while it runs out of line; for mutation: a step in
\* which a command runs leaves the Store as it is.
C9_CommandsLeaveStoreAlone ==
    [][(\E c \in BagToSet(cmds) : RunCommand(c)) => store' = store]_vars

\* C10: with the board active throughout and every page successful, once the last page
\* (more-pages false) has been processed the store holds exactly the cards the pages
\* delivered, the board is not loading more, and neither the board nor the store shows a
\* cursor or more pages.
C10_AllPagesLoaded ==
    (load.undisturbed /\ load.complete) =>
        /\ DOMAIN store.cards = load.delivered
        /\ Cardinality(GetAllCards(store)) = Cardinality(load.delivered)
        /\ currentModel = TheBoard
        /\ ~board.loadingMore
        /\ board.nextCursor = ""
        /\ GetPagination(store) = <<"", FALSE>>

\* Several pages were delivered, the last one has been processed.
C10_Witness ==
    /\ load.undisturbed
    /\ load.complete
    /\ Cardinality(load.delivered) > PageSize
    /\ DOMAIN store.cards = load.delivered

\* C11: neither loader can go on forever. Background pagination asks for a further page
\* only when it processes a page that came with more-pages true and a non-empty cursor, and
\* asks for the page at that cursor; the loop of reload-all takes another turn only after
\* such an answer; and, pages of zero cards included, a time comes after which no command
\* is running and no answer is on its way.
C11_LoadersStop ==
    /\ [][/\ \A msg \in BagToSet(msgs) :
                (msg.type = "pageLoadedMsg" /\ Deliver(msg) /\ cmds' # cmds) =>
                    /\ msg.err = ErrNone
                    /\ msg.hasMore
                    /\ msg.nextCursor # ""
                    /\ cmds' = cmds (+) Bag1(loadNextPage(msg.nextCursor))
           /\ \A c \in BagToSet(cmds), d \in BagToSet(cmds') :
                (/\ RunLoadAllItemsFetch(c)
                 /\ d.type = "loadAllItems"
                 /\ CopiesIn(d, cmds') > CopiesIn(d, cmds)) =>
                    \E got \in GetItems(remote, c.groupField, c.cursor, PageSize) :
                        /\ got.err = ErrNone
                        /\ got.hasMore
                        /\ got.nextCursor # ""
                        /\ d = [c EXCEPT !.cursor = got.nextCursor, !.allCards = @ \o got.cards]
          ]_vars
    /\ <>[](cmds = EmptyBag /\ msgs = EmptyBag)

\* A project of several pages: the background pagination and a reload-all have both come
\* to their end and the store holds every item.
C11_Witness ==
    /\ Cardinality(DOMAIN remote[StatusField.ID]) > PageSize
    /\ pressed >= 1
    /\ cmds = EmptyBag
    /\ msgs = EmptyBag
    /\ ~board.loading
    /\ ~board.loadingMore
    /\ DOMAIN store.cards = DOMAIN remote[StatusField.ID]

\* C12: a failed background page fetch is not fatal: once the failure has been processed
\* the 'Load failed' notice with the cause is set, loading-more is off and no further page
\* is requested, the machine is on the Board, and the store with its cards and columns is
\* as it was.
C12_PageFailureIsNotFatal ==
    [][\A msg \in BagToSet(msgs) :
          (msg.type = "pageLoadedMsg" /\ msg.err # ErrNone /\ Deliver(msg)) =>
              /\ board'.errorToast = "Load failed: " \o msg.err
              /\ ~board'.loadingMore
              /\ cmds' = cmds
              /\ currentScreen' = ScreenBoard
              /\ store' = store
      ]_vars

\* C13: GetColumns and GetColumnCardIDs hand out independent copies: whatever the caller
\* writes to the map or the list it holds (a bucket replaced, an identity edited or
\* appended, a key deleted), GetColumns and GetColumnCardIDs answer afterwards as they
\* would have answered without the write.
C13_ReturnedCopiesAreIndependent ==
    [][CallerWrites =>
          /\ GetColumns(store') = GetColumns(store)
          /\ \A k \in ColumnKeys : GetColumnCardIDs(store', k) = GetColumnCardIDs(store, k)
      ]_vars

\* The caller has written to the map GetColumns handed it: what it holds is no longer what
\* GetColumns answers.
C13_Witness ==
    /\ held.op = "GetColumns"
    /\ held.dirty
    /\ store.columns # EmptyMap
    /\ held.value # GetColumns(store).columns

\* C14 as stated: with a grouping field set, a card whose grouping value is empty or is not
\* an option identity of the active field is in the sentinel bucket, and only option
\* identities of the active field key a bucket of their own.
C14_UnrecognizedInSentinelBucket ==
    store.groupField # Nil =>
        /\ \A id \in DOMAIN store.cards :
              store.cards[id].GroupOptionID \notin Elems(store.groupField.Options) =>
                  id \in Elems(GetColumnCardIDs(store, NoStatusKey))
        /\ \A k \in DOMAIN store.columns :
              k # NoStatusKey => k \in Elems(store.groupField.Options)

\* C14 amended: only the empty grouping value leads to the sentinel bucket; every other
\* value, an option identity of the active field or not, keys a bucket of its own, and
\* the card is in that bucket and in no other.
C14_BucketKeyedByRawValue ==
    /\ \A id \in DOMAIN store.cards :
          LET v == store.cards[id].GroupOptionID
          IN \A k \in ColumnKeys :
                (id \in Elems(GetColumnCardIDs(store, k))) <=> (k = IF v = "" THEN NoStatusKey ELSE v)
    /\ DOMAIN store.columns \subseteq ColumnKeys

\* A grouping field is set and a card carries a value that is not one of its options: the
\* card sits in a bucket keyed by that value.
C14_Witness ==
    /\ store.groupField # Nil
    /\ \E id \in DOMAIN store.cards :
          LET v == store.cards[id].GroupOptionID
          IN /\ v # ""
             /\ v \notin Elems(store.groupField.Options)
             /\ id \in Elems(GetColumnCardIDs(store, v))

\* C15: SetGroupField re-maps nothing: a call leaves every card as it is, grouping value
\* included, the recomputed column index has the same keys (the raw value strings) and
\* each bucket the same members as before the call, and nothing but the active field and
\* the order inside the buckets changes in the store.
C15_SetGroupFieldKeepsValues ==
    [][CallerSetGroupField =>
          /\ store'.cards = store.cards
          /\ DOMAIN store'.columns = DOMAIN store.columns
          /\ \A k \in ColumnKeys :
                Elems(GetColumnCardIDs(store', k)) = Elems(GetColumnCardIDs(store, k))
          /\ [store' EXCEPT !.groupField = Nil, !.columns = EmptyMap]
                = [store EXCEPT !.groupField = Nil, !.columns = EmptyMap]
      ]_vars

\* The field was switched to Priority over cards valued against Status: a card still
\* carries the Status option and sits in the bucket of that name.
C15_Witness ==
    /\ held.op = "SetGroupField"
    /\ store.groupField = PriorityField
    /\ \E id \in DOMAIN store.cards :
          /\ store.cards[id].GroupOptionID \in Elems(StatusField.Options)
          /\ id \in Elems(GetColumns(store).columns[store.cards[id].GroupOptionID])

\* C16: MoveCard does not validate its target: for a card in the store and any target
\* value, the empty string or a value that is no option of the active field included, it
\* succeeds and the card's grouping value afterwards is the target; the card is then in
\* the bucket of the target, the sentinel bucket for the empty string.
C16_MoveCardTakesAnyTarget ==
    [][(held' # held /\ held'.op = "MoveCard" /\ held'.arg[1] \in DOMAIN store.cards) =>
          LET id == held'.arg[1]
              v  == held'.arg[2]
          IN /\ held'.err = ErrNone
             /\ id \in DOMAIN store'.cards
             /\ store'.cards[id].GroupOptionID = v
             /\ id \in Elems(GetColumnCardIDs(store', IF v = "" THEN NoStatusKey ELSE v))
      ]_vars

\* A card was moved to a value that is no option of the active field, and carries it.
C16_Witness ==
    /\ held.op = "MoveCard"
    /\ held.err = ErrNone
    /\ store.groupField # Nil
    /\ held.arg[2] # ""
    /\ held.arg[2] \notin Elems(store.groupField.Options)
    /\ store.cards[held.arg[1]].GroupOptionID = held.arg[2]

\* C17: ValidateOption(value) signals NoGroupField when no grouping field is set; with a
\* field set it succeeds for the empty string whatever the options are, succeeds for a
\* non-empty value iff the value is an option identity of the active field, and signals
\* InvalidOption otherwise; it never changes the store.
C17_ValidateOption ==
    [][CallerValidateOption =>
          LET v == held'.arg
              e == held'.err
          IN /\ store' = store
             /\ store.groupField = Nil => e = ErrNoGroupField
             /\ (store.groupField # Nil /\ v = "") => e = ErrNone
             /\ (store.groupField # Nil /\ v # "") =>
                    /\ (e = ErrNone) <=> (v \in Elems(store.groupField.Options))
                    /\ (e # ErrNone) => e = ErrInvalidOption(v)
      ]_vars

\* With a field set and cards in the store, a value of another field was refused.
C17_Witness ==
    /\ held.op = "ValidateOption"
    /\ store.groupField # Nil
    /\ store.cards # EmptyMap
    /\ held.arg # ""
    /\ held.err = ErrInvalidOption(held.arg)

\* C18: a call of the store that signals an error (GetCard or MoveCard for an identity the
\* store does not hold, RollbackMove with the slot empty, GetColumns or ValidateOption with
\* no grouping field, ValidateOption for an unknown value) leaves the cards, the column
\* index, the rollback slot, the pagination state, the project and the grouping field as
\* they were; a failed MoveCard leaves a held snapshot in the slot.
C18_FailedCallChangesNothing ==
    [][(held' # held /\ held'.err # ErrNone) =>
          /\ held'.op \in {"GetCard", "MoveCard", "RollbackMove", "GetColumns", "ValidateOption"}
          /\ store'.cards = store.cards
          /\ store'.columns = store.columns
          /\ store'.rollbackCard = store.rollbackCard
          /\ GetPagination(store') = GetPagination(store)
          /\ store'.project = store.project
          /\ store'.groupField = store.groupField
      ]_vars

\* MoveCard has failed for an identity the store does not hold, while the slot held the
\* snapshot of an earlier move and project, field and pagination state were set.
C18_Witness ==
    /\ held.op = "MoveCard"
    /\ held.err = ErrCardNotFound
    /\ store.rollbackCard # Nil
    /\ store.cards # EmptyMap
    /\ store.project # Nil
    /\ store.groupField # Nil
    /\ GetPagination(store) # <<"", FALSE>>

\* C19: GetColumns signals NoGroupField and returns no columns whenever no grouping field
\* is set, and answers with the column index otherwise; GetColumnCardIDs never signals an
\* error: it returns the identity list of the key, or an empty list when the key has no
\* bucket, with or without a grouping field.
C19_GetColumnsNeedsFieldCardIDsNever ==
    [][/\ CallerGetColumns =>
             IF store.groupField = Nil
             THEN held'.err = ErrNoGroupField /\ held'.value = Nil
             ELSE held'.err = ErrNone /\ held'.value = store.columns
       /\ CallerGetColumnCardIDs =>
             /\ held'.err = ErrNone
             /\ held'.value = IF held'.arg \in DOMAIN store.columns
                              THEN store.columns[held'.arg] ELSE <<>>
      ]_vars

\* GetColumns was refused for want of a grouping field while the store holds cards, which
\* GetColumnCardIDs hands out all the same.
C19_Witness ==
    /\ held.op = "GetColumns"
    /\ held.err = ErrNoGroupField
    /\ store.cards # EmptyMap
    /\ \E k \in ColumnKeys : GetColumnCardIDs(store, k) # <<>>

\* C20: Clear empties the cards, the column index, the pagination state and the rollback
\* snapshot, so that a RollbackMove right after it fails, and leaves the project and the
\* active field as they were; Reset does the same and clears the project and the active
\* field as well.
C20_ClearAndReset ==
    [][(held' # held /\ held'.op \in {"Clear", "Reset"}) =>
          /\ store'.cards = EmptyMap
          /\ store'.columns = EmptyMap
          /\ GetPagination(store') = <<"", FALSE>>
          /\ store'.rollbackCard = Nil
          /\ \A r \in RollbackMove(store') : r.err = ErrNoRollback
          /\ held'.op = "Clear" => /\ store'.project = store.project
                                   /\ store'.groupField = store.groupField
          /\ held'.op = "Reset" => /\ store'.project = Nil
                                   /\ store'.groupField = Nil
      ]_vars

\* Clear was called on a store with cards, a snapshot in the slot, a cursor, a project and
\* a field: project and field are still there, the rest is gone.
C20_Witness ==
    /\ held.op = "Clear"
    /\ held.arg.cards # EmptyMap
    /\ held.arg.rollbackCard # Nil
    /\ GetPagination(held.arg) # <<"", FALSE>>
    /\ store.project = TestProject
    /\ store.groupField \in FieldDefs
    /\ store.cards = EmptyMap

\* C21: UpsertCards inserts each card of the batch under its identity, replaces wholesale a
\* stored card of the same identity and leaves the other cards as they are: after any
\* sequence of upserts the store holds exactly one card for each identity upserted since
\* the latest Clear / Reset, with the contents of the most recent upsert of that identity
\* (the later one inside a batch), and GetCard signals CardNotFound for every other identity.
C21_StoreHoldsLatestUpserts ==
    LET places == {p \in (1..Len(hist)) \X (1..NumItems) : p[2] <= Len(hist[p[1]])}
        at(p) == hist[p[1]][p[2]]
        later(p, q) == p[1] > q[1] \/ (p[1] = q[1] /\ p[2] > q[2])
        ids == {at(p).ItemID : p \in places}
        latest(id) == at(CHOOSE p \in places :
                            /\ at(p).ItemID = id
                            /\ \A q \in places : (at(q).ItemID = id /\ q # p) => later(p, q))
    IN /\ DOMAIN store.cards = ids
       /\ Cardinality(GetAllCards(store)) = Cardinality(ids)
       /\ \A id \in ids : GetCard(store, id) = [card |-> latest(id), err |-> ErrNone]
       /\ \A id \in (ItemIDs \cup {FakeID}) \ ids :
             GetCard(store, id) = [card |-> Nil, err |-> ErrCardNotFound]

\* A card was upserted and upserted again with another title and value, a second identity
\* was never upserted: GetCard has just answered CardNotFound for it.
C21_Witness ==
    /\ Len(hist) = 2
    /\ \E i \in 1..Len(hist[1]), j \in 1..Len(hist[2]) :
          /\ hist[1][i].ItemID = hist[2][j].ItemID
          /\ hist[1][i].Title # hist[2][j].Title
          /\ hist[1][i].GroupOptionID # hist[2][j].GroupOptionID
          /\ store.cards[hist[2][j].ItemID] = hist[2][j]
    /\ held.op = "GetCard"
    /\ held.err = ErrCardNotFound
    /\ held.arg \notin DOMAIN store.cards

\* C22: whenever at least one single-select field of the list is named Status, in any
\* mix of upper and lower case, SelectGroupField answers the first such field in input
\* order, with no candidate list and no error, however many other single-select fields
\* there are and wherever they stand; a field of another type named Status is never
\* selected.
C22_StatusIsAutoSelected ==
    held.op = "SelectGroupField" =>
        LET fields == held.arg
            isStatus(i) == /\ fields[i].Type = "SINGLE_SELECT"
                           /\ fields[i].Name \in {"Status", "STATUS", "status"}
        IN /\ \A i \in 1..Len(fields) :
                 (isStatus(i) /\ \A j \in 1..(i - 1) : ~isStatus(j)) =>
                     /\ held.value.selected = fields[i]
                     /\ held.value.candidates = Nil
                     /\ held.err = ErrNone
           /\ held.value.selected # Nil => held.value.selected.Type = "SINGLE_SELECT"

\* Priority comes first, then a text field named Status, then the single-select field
\* named status in lower case: the last one is picked.
C22_Witness ==
    /\ held.op = "SelectGroupField"
    /\ Len(held.arg) = 3
    /\ held.arg[1] = PriorityField
    /\ held.arg[2].Name = "Status" /\ held.arg[2].Type = "TEXT"
    /\ held.arg[3].Name = "status" /\ held.arg[3].Type = "SINGLE_SELECT"
    /\ held.value.selected = held.arg[3]
    /\ held.value.candidates = Nil

\* C23: when no single-select field is named Status, SelectGroupField fails with
\* NoSelectableFields and answers neither a selection nor candidates if the list has no
\* single-select field (the empty list included), selects the field with no candidates if
\* it has exactly one, and with two or more selects nothing and answers as candidates
\* exactly the single-select fields, in input order.
C23_WithoutStatus ==
    held.op = "SelectGroupField" =>
        LET fields == held.arg
            at == {i \in 1..Len(fields) : fields[i].Type = "SINGLE_SELECT"}
            noStatus == \A i \in at : fields[i].Name \notin {"Status", "STATUS", "status"}
            got == held.value
        IN noStatus =>
              /\ at = {} => /\ held.err = ErrNoSelectableFields
                            /\ got.selected = Nil
                            /\ got.candidates = Nil
              /\ Cardinality(at) = 1 => /\ held.err = ErrNone
                                        /\ \A i \in at : got.selected = fields[i]
                                        /\ got.candidates = Nil
              /\ Cardinality(at) >= 2 =>
                    /\ held.err = ErrNone
                    /\ got.selected = Nil
                    /\ got.candidates # Nil
                    /\ Len(got.candidates) = Cardinality(at)
                    /\ \A k \in 1..Len(got.candidates) :
                          \E i \in at : /\ got.candidates[k] = fields[i]
                                         /\ Cardinality({j \in at : j < i}) = k - 1

\* Team, a text field, Priority: the candidates are Team and Priority in that order, and
\* nothing is selected.
C23_Witness ==
    /\ held.op = "SelectGroupField"
    /\ Len(held.arg) = 3
    /\ held.arg[1].Name = "Team"
    /\ held.arg[2].Type = "TEXT"
    /\ held.arg[3] = PriorityField
    /\ held.value.selected = Nil
    /\ held.value.candidates = <<held.arg[1], held.arg[3]>>

\* C24: when a project number is pre-filled and no fetched project has that number, the
\* machine goes to Error: processing the fetched projects sets the error, shows no project
\* picker, sets no project in the store and issues no command; and at no time is the
\* project picker shown or a project set in the store.
C24_UnknownProjectNumberIsAnError ==
    /\ [][\A msg \in BagToSet(msgs) :
            (/\ msg.type = "projectsLoadedMsg"
             /\ app.projectFlag > 0
             /\ \A i \in 1..Len(msg.projects) : msg.projects[i].Number # app.projectFlag
             /\ Deliver(msg)) =>
                /\ app'.err # ErrNone
                /\ currentScreen' # ScreenProjectPicker
                /\ currentModel' # TheProjectPicker
                /\ store' = store
                /\ cmds' = cmds
         ]_vars
    /\ [](/\ app.projectFlag > 0
          /\ \A i \in 1..Len(Projects) : Projects[i].Number # app.projectFlag
          => /\ currentScreen # ScreenProjectPicker
             /\ currentModel # TheProjectPicker
             /\ store.project = Nil)

\* The projects were fetched under a number none of them has: the error is set, the store
\* has no project, the screen is not the project picker.
C24_Witness ==
    /\ app.projectFlag > 0
    /\ \A i \in 1..Len(Projects) : Projects[i].Number # app.projectFlag
    /\ app.err = "project not found for owner"
    /\ store.project = Nil
    /\ currentScreen # ScreenProjectPicker

\* C25 as stated: when a field name is pre-filled and no fetched field has that name, the
\* machine goes to Error, showing no field picker, selecting no other field and not going
\* on to the board; when a fetched field has the name, the field picker is skipped and
\* that field becomes the grouping field.
C25_FieldFlagAsStated ==
    [][\A msg \in BagToSet(msgs) :
          (msg.type = "fieldsLoadedMsg" /\ app.groupFieldFlag # "" /\ Deliver(msg)) =>
              LET at == {i \in 1..Len(msg.fields) : msg.fields[i].Name = app.groupFieldFlag}
              IN /\ at = {} =>
                       /\ app'.err # ErrNone
                       /\ currentScreen' = currentScreen
                       /\ store' = store
                       /\ msgs' = msgs (-) Bag1(msg)
                 /\ at # {} =>
                       /\ app'.err = app.err
                       /\ currentScreen' # ScreenFieldPicker
                       /\ \E i \in at : /\ store'.groupField = msg.fields[i]
                                         /\ \A j \in at : i <= j
                       /\ msgs' = (msgs (-) Bag1(msg)) (+) Bag1(boardReadyMsg)
      ]_vars

\* C25 amended: the heuristic runs first. When the fetched fields hold no single-select
\* field the machine goes to Error (NoSelectableFields), whether or not a field has the
\* pre-filled name. Otherwise: when no fetched field has the name, the machine goes to
\* Error, showing no field picker, selecting no other field and not going on to the
\* board; when a fetched field has the name, the field picker is skipped and the first
\* such field, of whatever type, becomes the grouping field.
C25_FieldFlagAfterHeuristic ==
    [][\A msg \in BagToSet(msgs) :
          (msg.type = "fieldsLoadedMsg" /\ app.groupFieldFlag # "" /\ Deliver(msg)) =>
              LET at == {i \in 1..Len(msg.fields) : msg.fields[i].Name = app.groupFieldFlag}
                  selectable == \E i \in 1..Len(msg.fields) : msg.fields[i].Type = "SINGLE_SELECT"
              IN /\ ~selectable => app'.err = ErrNoSelectableFields
                 /\ (at = {} \/ ~selectable) =>
                       /\ app'.err # ErrNone
                       /\ currentScreen' = currentScreen
                       /\ store' = store
                       /\ msgs' = msgs (-) Bag1(msg)
                 /\ (at # {} /\ selectable) =>
                       /\ app'.err = app.err
                       /\ currentScreen' # ScreenFieldPicker
                       /\ \E i \in at : /\ store'.groupField = msg.fields[i]
                                         /\ \A j \in at : i <= j
                       /\ msgs' = (msgs (-) Bag1(msg)) (+) Bag1(boardReadyMsg)
      ]_vars

\* The fields were fetched under a name none of them has, two single-select fields among
\* them: the error names the flag, no grouping field is set, no picker is shown.
C25_Witness ==
    /\ app.groupFieldFlag = "Points"
    /\ app.err = "field 'Points' not found in project"
    /\ Len(SelectSeq(app.fields, LAMBDA f : f.Type = "SINGLE_SELECT")) = 2
    /\ store.groupField = Nil
    /\ currentScreen # ScreenFieldPicker
    /\ currentScreen # ScreenBoard

\* C26: a failure during the bootstrap sequence moves the machine to Error, and Error is
\* terminal: once the error is set it is never cleared, the screen does not change any
\* more and the store is not mutated any more.
C26_ErrorIsTerminal ==
    [][/\ \A msg \in BagToSet(msgs) :
             (msg.type = "ErrorMsg" /\ Deliver(msg)) => app'.err = msg.Err
       /\ app.err # ErrNone =>
             /\ app'.err # ErrNone
             /\ currentScreen' = currentScreen
             /\ store' = store
      ]_vars

\* C27: Detail is entered only from the Board, and closing Detail returns to the Board with
\* the board's selection and filter and the loaded cards as they were when Detail was
\* opened: nothing changes them while Detail is the screen.
C27_DetailFromBoardAndBack ==
    [][/\ (currentScreen' = ScreenDetail /\ currentScreen # ScreenDetail) =>
             currentScreen = ScreenBoard
       /\ (BagIn(closeDetailMsg, msgs) /\ Deliver(closeDetailMsg)) =>
             /\ currentScreen' = ScreenBoard
             /\ currentModel' = TheBoard
       /\ currentScreen = ScreenDetail =>
             /\ board' = board
             /\ store'.cards = store.cards
      ]_vars

\* C28: every optimistic move is followed by exactly one remote update request, which
\* carries the card id and the target value of the local MoveCard and the id of the
\* grouping field that was active when the move was made, and every request yields exactly
\* one success or failure event. A key press that changes the store is a move (the board
\* calls no other mutator on a key); the request is seen by what it does to the remote.
C28_MoveIsFollowedByItsRequest ==
    [][/\ (pressed' # pressed /\ store' # store) =>
              \E c \in BagToSet(cmds') :
                 /\ cmds' = cmds (+) Bag1(c)
                 /\ c.type = "moveCardToColumn"
                 /\ c.itemID = store'.rollbackCard.ItemID
                 /\ c.newOptionID = store'.cards[c.itemID].GroupOptionID
                 /\ c.field = store.groupField.ID
       /\ \A c \in BagToSet(cmds) :
              (c.type = "moveCardToColumn" /\ RunMove(c)) =>
                 \E got \in UpdateItemField(remote, c.itemID, c.field, c.newOptionID) :
                    /\ remote' = got.remote
                    /\ msgs' = msgs (+) Bag1(IF got.err # ErrNone
                                             THEN moveErrorMsg(got.err, c.itemID, c.preMove)
                                             ELSE moveSuccessMsg)
      ]_vars

\* C29: when a successful page response is processed its cards are upserted, columns
\* recomputed, and then the next page is requested if and only if more-pages is true and
\* the returned cursor is not empty, with exactly that cursor; otherwise loading stops with
\* the cursor cleared. The reload-all loop goes on under the same condition: after a
\* successful answer it takes another turn with the returned cursor, or else it ends with
\* the upsert of all it has collected and an empty pagination state.
C29_NextPageIffMorePages ==
    [][/\ \A msg \in BagToSet(msgs) :
             (msg.type = "pageLoadedMsg" /\ msg.err = ErrNone /\ Deliver(msg)) =>
                /\ store' \in UpsertCards(store, msg.cards)
                /\ IF msg.hasMore /\ msg.nextCursor # ""
                   THEN /\ cmds' = cmds (+) Bag1(loadNextPage(msg.nextCursor))
                        /\ board'.nextCursor = msg.nextCursor
                        /\ board'.loadingMore
                   ELSE /\ cmds' = cmds
                        /\ board'.nextCursor = ""
                        /\ ~board'.loadingMore
       /\ \A c \in BagToSet(cmds) :
             (c.type = "loadAllItems" /\ c.pc = "cleared" /\ RunLoadAllItemsFetch(c)) =>
                \/ /\ msgs' = msgs (+) Bag1(itemsErrorMsg(ErrGetItems))
                   /\ cmds' = cmds (-) Bag1(c)
                \/ \E got \in GetItems(remote, c.groupField, c.cursor, PageSize) :
                      /\ got.err = ErrNone
                      /\ IF got.hasMore /\ got.nextCursor # ""
                         THEN /\ cmds' = (cmds (-) Bag1(c))
                                          (+) Bag1([c EXCEPT !.cursor = got.nextCursor,
                                                             !.allCards = @ \o got.cards])
                              /\ msgs' = msgs
                              /\ store' = store
                         ELSE /\ cmds' = cmds (-) Bag1(c)
                              /\ msgs' = msgs (+) Bag1(itemsLoadedMsg)
                              /\ \E t \in UpsertCards(store, c.allCards \o got.cards) :
                                    store' = SetPagination(t, "", FALSE)
      ]_vars

\* C30: a successful reload-all with no other event interleaved (the only reload so far,
\* started on a board at rest) leaves the store with exactly the cards the fetched pages
\* returned, so that cards the remote no longer returns are gone, with the project and the
\* grouping field as they were, the pagination state and the rollback slot empty, and the
\* board no longer loading.
C30_ReloadAllReplacesCards ==
    [][/\ (pressed = 1 /\ BagIn(itemsLoadedMsg, msgs) /\ Deliver(itemsLoadedMsg)) =>
             /\ store'.cards = [i \in DOMAIN remote[StatusField.ID] |->
                                    Card(i, remote[StatusField.ID][i])]
             /\ GetPagination(store') = <<"", FALSE>>
             /\ store'.rollbackCard = Nil
             /\ ~board'.loading
       /\ store'.project = store.project
       /\ store'.groupField = store.groupField
      ]_vars

\* The reload has been processed, and it removed a card the project has lost.
C30_Witness ==
    /\ pressed = 1
    /\ cmds = EmptyBag
    /\ msgs = EmptyBag
    /\ ~board.loading
    /\ DOMAIN store.cards = DOMAIN remote[StatusField.ID]
    /\ DOMAIN store.cards # {}
    /\ DOMAIN store.cards # ItemIDs

\* C31: when a page fetch fails during a reload-all, then once the failure event has been
\* processed a notice with the cause is shown, the board is no longer loading, and the
\* session is on the Board without an error.
C31_ReloadFailureIsNotFatal ==
    [][\A msg \in BagToSet(msgs) :
          (msg.type = "itemsErrorMsg" /\ Deliver(msg)) =>
              /\ board'.errorToast # ""
              /\ ~board'.loading
              /\ currentScreen' = ScreenBoard
              /\ app'.err = ErrNone
      ]_vars

\* C32: processing the success event of a move performs no store action: the cards, the
\* column index and the rollback slot are what they were before the event; the snapshot in
\* the rollback slot is replaced or dropped only by a new move (a key press) or by the
\* rollback of a failed one.
C32_MoveSuccessLeavesStore ==
    [][/\ (BagIn(moveSuccessMsg, msgs) /\ Deliver(moveSuccessMsg)) =>
             /\ store'.cards = store.cards
             /\ store'.columns = store.columns
             /\ store'.rollbackCard = store.rollbackCard
       /\ store'.rollbackCard # store.rollbackCard =>
             \/ pressed' # pressed
             \/ \E msg \in BagToSet(msgs) : msg.type = "moveErrorMsg" /\ Deliver(msg)
      ]_vars

\* The one move made (m, then a digit) has succeeded on the remote and its success event
\* has been processed (move mode is off without a third key): the snapshot is still in the
\* slot.
C32_Witness ==
    /\ pressed = 2
    /\ cmds = EmptyBag
    /\ msgs = EmptyBag
    /\ remote # RemoteItems
    /\ ~board.moveMode
    /\ store.rollbackCard # Nil

\* C33: with no text filter and the assigned-to-me filter off, whenever the board has
\* rebuilt its columns and applied the filter (on boardInitMsg, itemsLoadedMsg, a successful
\* pageLoadedMsg, moveSuccessMsg, moveErrorMsg), its columns are the options of the active
\* field in their order followed by No Status, every column has a list, and every card of
\* the store is listed exactly once across these columns, under the column of its grouping
\* value.
C33_BoardShowsEveryCardOnce ==
    [][\A msg \in BagToSet(msgs) :
          (/\ msg.type \in {"boardInitMsg", "itemsLoadedMsg", "pageLoadedMsg", "moveSuccessMsg",
                            "moveErrorMsg"}
           /\ msg.type = "pageLoadedMsg" => msg.err = ErrNone
           /\ currentModel = TheBoard
           /\ Deliver(msg)) =>
              LET cols == board'.columns
                  fc == board'.filteredCards
                  places(id) == {p \in (1..Len(cols)) \X ItemIDs :
                                    /\ p[2] <= Len(fc[cols[p[1]]])
                                    /\ fc[cols[p[1]]][p[2]] = id}
              IN /\ cols = store'.groupField.Options \o <<NoStatusKey>>
                 /\ \A i \in 1..Len(cols) : cols[i] \in DOMAIN fc
                 /\ \A id \in DOMAIN store'.cards :
                       /\ Cardinality(places(id)) = 1
                       /\ \A p \in places(id) :
                             cols[p[1]] = BucketOf(store'.cards[id].GroupOptionID)
      ]_vars

\* C34: on the Board, after any sequence of key presses, page loads, move results and
\* filter changes, the selected column index lies in [0, number of columns) whenever
\* columns exist, and the selected card index of every column lies in [0, number of
\* filtered cards of the column), or is 0 when the column has none: a selection moved past
\* an end stays at the end.
C34_SelectionInRange ==
    board # Nil =>
        /\ Len(board.columns) > 0 => board.selectedColumn \in 0..(Len(board.columns) - 1)
        /\ \A c \in Elems(board.columns) \cup DOMAIN board.filteredCards :
              /\ c \in DOMAIN board.filteredCards
              /\ IF Len(board.filteredCards[c]) = 0 THEN board.selectedCard[c] = 0
                 ELSE board.selectedCard[c] \in 0..(Len(board.filteredCards[c]) - 1)

\* The selection is on the last card of a column of several cards.
C34_Witness ==
    /\ board # Nil
    /\ pressed >= 1
    /\ \E c \in DOMAIN board.filteredCards :
          /\ Len(board.filteredCards[c]) >= 2
          /\ board.selectedCard[c] = Len(board.filteredCards[c]) - 1

\* C35: local state converges to the remote state: once every issued remote move has
\* resolved (no move command is running and no move result is waiting to be processed),
\* the grouping value of each card in the store is the value the remote service holds for
\* it under the active field.
C35_LocalConvergesToRemote ==
    (store.groupField # Nil /\ PendingMoves = 0) =>
        \A id \in DOMAIN store.cards :
            store.cards[id].GroupOptionID = remote[store.groupField.ID][id]

\* C36: if every page fetch succeeds, then once the Board has been reached the background
\* pagination eventually loads every item of the project into the store, also when the
\* user opens the detail view or the field picker while a page request is in flight,
\* provided the user returns to the Board.
C36_BackgroundLoadCompletes ==
    []<>(currentModel = TheBoard) =>
        <>(DOMAIN store.cards = DOMAIN remote[StatusField.ID])

\* C37: at most one background page request is in flight at any time: the loadNextPage
\* commands not yet finished and the page responses not yet processed number one at most.
C37_OnePageRequestInFlight ==
    BagCardinality([c \in {x \in BagToSet(cmds) : x.type = "loadNextPage"} |-> CopiesIn(c, cmds)])
    + BagCardinality([m \in {x \in BagToSet(msgs) : x.type = "pageLoadedMsg"} |->
                         CopiesIn(m, msgs)])
        <= 1

\* C38: the active grouping field held by the Store is always a field of type
\* single-select, whichever path set it (heuristic, picker, pre-filled field name).
C38_GroupFieldIsSingleSelect ==
    store.groupField # Nil => store.groupField.Type = FieldTypeSingleSelect

\* C39: when a card was upserted again between its optimistic move and the rollback of
\* that move, the rollback does not discard the newer data: after RollbackMove the card's
\* fields other than the grouping value are those of that latest upsert.
C39_RollbackKeepsNewerData ==
    [][(/\ store.rollbackCard # Nil
        /\ held.op = "UpsertCards"
        /\ \E i \in 1..Len(held.arg) : held.arg[i].ItemID = store.rollbackCard.ItemID
        /\ StaleRollbackMove) =>
          LET id == store.rollbackCard.ItemID
              last == CHOOSE i \in 1..Len(held.arg) :
                         /\ held.arg[i].ItemID = id
                         /\ \A j \in 1..Len(held.arg) : held.arg[j].ItemID = id => j <= i
          IN [store'.cards[id] EXCEPT !.GroupOptionID = ""]
                 = [held.arg[last] EXCEPT !.GroupOptionID = ""]
      ]_vars

\* C40: once the Board is reached, the owner login the AppModel holds, recorded as Owner
\* on the stored project, is the owner pre-filled on the command line or, without one, an
\* owner of the picker; it is not empty.
C40_OwnerLoginIsTheChosenOwner ==
    currentScreen = ScreenBoard =>
        /\ app.ownerLogin # ""
        /\ store.project.Owner = app.ownerLogin
        /\ app.ownerFlag # "" => app.ownerLogin = app.ownerFlag
        /\ app.ownerFlag = "" => \E i \in 1..Len(Owners) : Owners[i].Login = app.ownerLogin
====
